---- MODULE Spec2Model ----
(***************************************************************************)
(* lockin: the signed session record, the hosts / packet-filter block      *)
(* layers, the watchdog loop with its schedule evaluator, and the          *)
(* privileged Begin-Session transaction of the launcher.                   *)
(*                                                                         *)
(* Text files are sequences of lines in the representation of              *)
(* str.split("\n"): "a\n" is <<"a", "">> and "" is <<"">>.                 *)
(* Wall-clock time is an integer number of seconds since the epoch.        *)
(***************************************************************************)
EXTENDS Integers, Sequences, FiniteSets, TLC

VARIABLES
    now,            \* time.time(): the wall clock
    sessionFile,    \* /var/lockin/session.json
    sessionSchg,    \* schg flag of the session file
    hostsFile,      \* /etc/hosts
    hostsSchg,      \* schg flag of /etc/hosts
    pfAnchor,       \* addresses loaded in the pf anchor com.lockin
    pfRulesFile,    \* /var/lockin/pf_rules.conf exists
    pfTokenFile,    \* /var/lockin/pfctl_token exists
    packageSchg,    \* schg flag of the package paths
    plist,          \* /Library/LaunchDaemons/com.lockin.watchdog.plist
    scheduleState,  \* /var/lockin/schedule_state.json
    procs,          \* names of the running processes
    pcW,            \* position of the watchdog process
    wClass,         \* classification made by the current (or last) tick
    wSess,          \* the watchdog's local `sess`
    wTrig,          \* locals of _try_trigger_schedule past its checks
    pcL,            \* position of the launcher process
    lArgs,          \* the launcher's profile_name, duration_seconds and block lists
    owedUntil,      \* latest end_time of a created record the clock has not reached
    crashes,        \* number of process crashes so far
    pureIn,         \* input of the pure-function specification
    pureOut,        \* its output
    observing,      \* the operations whose messages and results are watched
    schedules,      \* the schedules section of ~/.config/lockin/config.json
    out,            \* the last message printed or logged, with its exit status
    scheduleCreated \* the (schedule, date) pairs of the sessions schedules created

diskVars == <<sessionFile, sessionSchg, hostsFile, hostsSchg, pfAnchor,
              pfRulesFile, pfTokenFile, packageSchg, plist, scheduleState>>
watchdogVars == <<pcW, wClass, wSess, wTrig>>
launcherVars == <<pcL, lArgs>>
pureVars == <<pureIn, pureOut>>
cfgVars == <<observing, schedules>>
obsVars == <<out, scheduleCreated>>
vars == <<now, sessionFile, sessionSchg, hostsFile, hostsSchg, pfAnchor,
          pfRulesFile, pfTokenFile, packageSchg, plist, scheduleState, procs,
          pcW, wClass, wSess, wTrig, pcL, lArgs, owedUntil, crashes,
          pureIn, pureOut, observing, schedules, out, scheduleCreated>>

----------------------------------------------------------------------------
(* Bounds of the model *)

MaxClockSteps == 3
MaxDurationSteps == 1
MaxCrashes == 1
MaxPureTime == 7
MaxPureDuration == 3
MaxSignTime == 1
MaxHostsLines == 3
MaxDomains == 4
MaxApplies == 5
MaxTriggerTime == 130

(* Program constants *)

MIN_REMAINING_SECONDS == 60
CLOCK_SKEW_FACTOR == 2
SECONDS_PER_DAY == 24 * 60 * 60

BLOCK_START == "# >>> LOCKIN BLOCK START >>>"
BLOCK_END == "# <<< LOCKIN BLOCK END <<<"
SUBDOMAIN_PREFIXES == <<"", "www.", "m.", "api.", "mobile.", "app.">>

\* The instants at which the clock is observed: multiples of the schedule
\* threshold, so that a schedule window can be entered, left and missed.
ClockStep == MIN_REMAINING_SECONDS
MaxTime == MaxClockSteps * ClockStep
Times == {k * ClockStep : k \in 0..MaxClockSteps}
Durations == {k * ClockStep : k \in 1..MaxDurationSteps}

----------------------------------------------------------------------------
(* Sequences *)

Last(s) == s[Len(s)]
Front(s) == SubSeq(s, 1, Len(s) - 1)
Range(s) == {s[i] : i \in 1..Len(s)}

\* list(dict.fromkeys(s)): the first occurrence of each element, in order
Dedupe(s) ==
    LET first == {i \in 1..Len(s) : \A j \in 1..(i - 1) : s[j] # s[i]}
    IN [k \in 1..Cardinality(first) |->
           s[CHOOSE i \in first : Cardinality({j \in first : j <= i}) = k]]

----------------------------------------------------------------------------
(* config.py: the profile store, read-only input of the core *)

Config ==
    [profiles |->
        [n \in {"work", "chat", "empty"} |->
            IF n = "work"
            THEN [custom_sites |-> <<"x.com">>, blocked_apps |-> <<"Discord">>]
            ELSE IF n = "chat"
            THEN [custom_sites |-> <<>>, blocked_apps |-> <<"Discord">>]
            ELSE [custom_sites |-> <<>>, blocked_apps |-> <<>>]],
     schedules |->
        [n \in {"morning"} |->
            [profile |-> "work", days |-> {"Thursday"}, start_time |-> "00:00",
             duration_minutes |-> 2, timezone |-> "UTC"]],
     always_blocked |-> [sites |-> <<>>, apps |-> <<>>]]

ProfileArgs == {"work", "nope"}

\* the profile names Begin-Session is given where its messages are observed
OpsProfileArgs == ProfileArgs \cup {"empty"}

RECURSIVE ExpandSites(_)
ExpandSites(sites) ==
    IF sites = <<>> THEN <<>>
    ELSE [i \in 1..Len(SUBDOMAIN_PREFIXES) |-> SUBDOMAIN_PREFIXES[i] \o Head(sites)]
         \o ExpandSites(Tail(sites))

resolve_domains(profile) == Dedupe(ExpandSites(profile.custom_sites))

resolve_apps(profile) == Dedupe(profile.blocked_apps)

resolve_blocked_lists(profile, always_blocked) ==
    [domains |-> Dedupe(resolve_domains(profile) \o ExpandSites(always_blocked.sites)),
     apps |-> Dedupe(resolve_apps(profile) \o always_blocked.apps)]

\* resolve_blocked_lists(config.profiles[name], config.always_blocked) for each
\* profile of the configuration, which no operation of the core changes
BlockedLists ==
    [name \in DOMAIN Config.profiles |->
        resolve_blocked_lists(Config.profiles[name], Config.always_blocked)]

----------------------------------------------------------------------------
(* session.py: the signed session record *)

NoFile == [kind |-> "absent"]
Garbage == [kind |-> "garbage"]
NoSession == [kind |-> "none"]
HOST_KEY == "pbkdf2(IOPlatformUUID)"

\* _compute_hmac over a payload that forgets the order of the domain list
compute_hmac_unordered(data) ==
    [key |-> HOST_KEY,
     payload |-> <<data.blocked_apps, {data.blocked_domains[i] :
                                          i \in 1..Len(data.blocked_domains)},
                   data.duration_seconds, data.end_time, data.profile_name,
                   data.start_time>>]

\* The HMAC of the canonical encoding: a keyed function of every field but
\* the signature, injective in the payload.
compute_hmac(data) ==
    [key |-> HOST_KEY,
     payload |-> <<data.blocked_apps, data.blocked_domains, data.duration_seconds,
                   data.end_time, data.profile_name, data.start_time>>]

Unsigned == [key |-> "", payload |-> <<>>]

NewSession(profile_name, t, duration_seconds, blocked_domains, blocked_apps) ==
    [kind |-> "record",
     profile_name |-> profile_name,
     start_time |-> t,
     end_time |-> t + duration_seconds,
     duration_seconds |-> duration_seconds,
     blocked_domains |-> blocked_domains,
     blocked_apps |-> blocked_apps,
     hmac_signature |-> Unsigned]

sign(s) == [s EXCEPT !.hmac_signature = compute_hmac(s)]

verify(s) == s.hmac_signature = compute_hmac(s)

is_expired(s, t) == t >= s.end_time

elapsed_seconds(s, t) == t - s.start_time

\* is_clock_tampered without the upper bound on the elapsed time
is_clock_tampered_no_upper(s, t) == t < s.start_time

\* is_clock_tampered with >= in place of >
is_clock_tampered_ge(s, t) ==
    t < s.start_time \/ t - s.start_time >= s.duration_seconds * 2

is_clock_tampered(s, t) ==
    IF t < s.start_time THEN TRUE
    ELSE IF elapsed_seconds(s, t) > s.duration_seconds * CLOCK_SKEW_FACTOR THEN TRUE
    ELSE FALSE

\* load_session: None when the file is missing or does not parse
load_session(file) == IF file.kind = "record" THEN file ELSE NoSession

get_active_session(file, t) ==
    LET session == load_session(file)
    IN IF session = NoSession THEN NoSession
       ELSE IF ~verify(session) THEN NoSession
       ELSE IF is_expired(session, t) THEN NoSession
       ELSE session

\* create_session: sign and save; save_session clears schg, writes, sets schg
create_session(profile_name, t, duration_seconds, blocked_domains, blocked_apps) ==
    sign(NewSession(profile_name, t, duration_seconds, blocked_domains, blocked_apps))

----------------------------------------------------------------------------
(* The files and kernel state the core mutates, as one record, so that an  *)
(* operation is a function from the state before to the state after.       *)

Fs ==
    [session |-> sessionFile, sessionSchg |-> sessionSchg,
     hosts |-> hostsFile, hostsSchg |-> hostsSchg,
     anchor |-> pfAnchor, rules |-> pfRulesFile, token |-> pfTokenFile,
     pkg |-> packageSchg, plist |-> plist, sched |-> scheduleState]

Commit(fs) ==
    \E f \in {fs} :
        /\ sessionFile' = f.session
        /\ sessionSchg' = f.sessionSchg
        /\ hostsFile' = f.hosts
        /\ hostsSchg' = f.hostsSchg
        /\ pfAnchor' = f.anchor
        /\ pfRulesFile' = f.rules
        /\ pfTokenFile' = f.token
        /\ packageSchg' = f.pkg
        /\ plist' = f.plist
        /\ scheduleState' = f.sched

\* save_session: chflags noschg, write_text, chflags schg
save_session(fs, s) == [fs EXCEPT !.session = s, !.sessionSchg = TRUE]

\* delete_session: chflags noschg, unlink(missing_ok)
delete_session(fs) == [fs EXCEPT !.session = NoFile, !.sessionSchg = FALSE]

is_session_immutable(fs) == fs.session # NoFile /\ fs.sessionSchg

\* set_session_immutable that sets nothing
set_session_immutable_skipped(fs) == fs

set_session_immutable(fs) ==
    IF fs.session = NoFile THEN fs ELSE [fs EXCEPT !.sessionSchg = TRUE]

----------------------------------------------------------------------------
(* blocker.py: the hosts layer *)

\* Python's order of the strings the model uses ("." sorts before letters)
LEX_ORDER == <<"", "X.com", "api.x.com", "app.x.com", "m.x.com", "mobile.x.com",
               "www.x.com", "x.com">>

StrRank(d) == CHOOSE i \in 1..Len(LEX_ORDER) : LEX_ORDER[i] = d

\* sorted(S)
Sorted(S) ==
    [k \in 1..Cardinality(S) |->
        CHOOSE d \in S : Cardinality({e \in S : StrRank(e) < StrRank(d)}) = k - 1]

\* str.strip() on the lines the model uses
Strip(line) ==
    CASE line = "  " -> ""
      [] line = "  " \o BLOCK_START -> BLOCK_START
      [] line = BLOCK_END \o " " -> BLOCK_END
      [] OTHER -> line

\* str.splitlines() and "\n".join() in the split("\n") representation
SplitLines(content) == IF Last(content) = "" THEN Front(content) ELSE content
JoinLines(lines) == IF lines = <<>> THEN <<"">> ELSE lines

\* `needle in content` for a needle that is one whole line of the vocabulary
Contains(content, needle) ==
    \E i \in 1..Len(content) : Strip(content[i]) = needle

\* the lines of the region with a line for the empty string too
BlockLines_keeps_empty(sortedDomains) ==
    [i \in 1..Len(sortedDomains) |-> "0.0.0.0 " \o sortedDomains[i]]

BlockLines(sortedDomains) ==
    LET named == SelectSeq(sortedDomains, LAMBDA d : d # "")
    IN [i \in 1..Len(named) |-> "0.0.0.0 " \o named[i]]

\* _get_block_entries without the opening sentinel
get_block_entries_no_start(domains) ==
    BlockLines(Sorted(Range(domains))) \o <<BLOCK_END>>

get_block_entries(domains) ==
    <<BLOCK_START>> \o BlockLines(Sorted(Range(domains))) \o <<BLOCK_END>>

RECURSIVE StripLoop(_, _)
StripLoop(lines, inside_block) ==
    IF lines = <<>> THEN <<>>
    ELSE IF Strip(Head(lines)) = BLOCK_START THEN StripLoop(Tail(lines), TRUE)
    ELSE IF Strip(Head(lines)) = BLOCK_END THEN StripLoop(Tail(lines), FALSE)
    ELSE IF ~inside_block THEN <<Head(lines)>> \o StripLoop(Tail(lines), inside_block)
    ELSE StripLoop(Tail(lines), inside_block)

RECURSIVE PopBlank(_)
PopBlank(result) ==
    IF result # <<>> /\ Strip(Last(result)) = "" THEN PopBlank(Front(result))
    ELSE result

\* _strip_existing_blocks that takes no line away
strip_existing_blocks_none(content) ==
    JoinLines(PopBlank(SplitLines(content)))

strip_existing_blocks(content) ==
    JoinLines(PopBlank(StripLoop(SplitLines(content), FALSE)))

\* apply_blocks that appends the region to the content as it is
AppliedContent_appends(content, domains) ==
    content \o <<"">> \o get_block_entries(domains) \o <<"">>

\* clean + "\n\n" + block_entries + "\n"
AppliedContent(content, domains) ==
    strip_existing_blocks(content) \o <<"">> \o get_block_entries(domains) \o <<"">>

\* clean, with "\n" appended unless it ends with one
RemovedContent(content) ==
    LET clean == strip_existing_blocks(content)
    IN IF Len(clean) >= 2 /\ Last(clean) = "" THEN clean ELSE clean \o <<"">>

----------------------------------------------------------------------------
(* blocker.py: the packet-filter layer *)

LOOPBACK == {"0.0.0.0", "127.0.0.1", "::1"}

\* What the resolver answers: a public address, the hosts-file sinkhole, or
\* nothing (gaierror).
DnsAnswers == {"public", "sinkhole", "gaierror"}

getaddrinfo(domain, dns) ==
    CASE dns = "public" -> {"93.184.216.34"}
      [] dns = "sinkhole" -> {"0.0.0.0"}
      [] OTHER -> {}

resolve_domain_ips(domains, dns) ==
    UNION {getaddrinfo(d, dns) : d \in Range(domains) \ {""}} \ LOOPBACK

\* apply_pfctl_rules that writes the rules file before it looks at the addresses
apply_pfctl_rules_writes_first(fs, domains, dns) ==
    LET ips == resolve_domain_ips(domains, dns)
    IN IF ips = {} THEN [fs EXCEPT !.rules = TRUE]
       ELSE [fs EXCEPT !.rules = TRUE, !.anchor = ips, !.token = TRUE]

apply_pfctl_rules(fs, domains, dns) ==
    LET ips == resolve_domain_ips(domains, dns)
    IN IF ips = {} THEN fs
       ELSE [fs EXCEPT !.rules = TRUE, !.anchor = ips, !.token = TRUE]

\* remove_pfctl_rules that leaves the token file behind
remove_pfctl_rules_keeps_token(fs) == [fs EXCEPT !.anchor = {}, !.rules = FALSE]

remove_pfctl_rules(fs) ==
    [fs EXCEPT !.anchor = {}, !.token = FALSE, !.rules = FALSE]

are_pfctl_rules_applied(fs) == fs.anchor # {}

\* apply_blocks that goes on to the packet filter after a refused write
apply_blocks_pf_after_refusal(fs, domains, dns, writable) ==
    IF domains = <<>> THEN fs
    ELSE IF ~writable
         THEN apply_pfctl_rules([fs EXCEPT !.hostsSchg = FALSE], domains, dns)
    ELSE apply_pfctl_rules(
            [fs EXCEPT !.hosts = AppliedContent(fs.hosts, domains),
                       !.hostsSchg = TRUE],
            domains, dns)

\* apply_blocks that takes the old region out in a write of its own, before
\* the write of the new content
apply_blocks_strips_first(fs, domains, dns, writable) ==
    IF domains = <<>> THEN fs
    ELSE IF ~writable
         THEN [fs EXCEPT !.hosts = strip_existing_blocks(fs.hosts), !.hostsSchg = FALSE]
    ELSE apply_pfctl_rules(
            [fs EXCEPT !.hosts = AppliedContent(fs.hosts, domains),
                       !.hostsSchg = TRUE],
            domains, dns)

\* apply_blocks; `writable` is whether the write to /etc/hosts is permitted
apply_blocks(fs, domains, dns, writable) ==
    IF domains = <<>> THEN fs
    ELSE IF ~writable THEN [fs EXCEPT !.hostsSchg = FALSE]
    ELSE apply_pfctl_rules(
            [fs EXCEPT !.hosts = AppliedContent(fs.hosts, domains),
                       !.hostsSchg = TRUE],
            domains, dns)

apply_blocks_ok(domains, writable) == domains = <<>> \/ writable

\* remove_blocks up to flush_dns_cache: noschg, strip the region, write
remove_hosts_region(fs) ==
    [fs EXCEPT !.hosts = RemovedContent(fs.hosts), !.hostsSchg = FALSE]

remove_blocks(fs, writable) ==
    IF ~writable THEN [fs EXCEPT !.hostsSchg = FALSE]
    ELSE remove_pfctl_rules(remove_hosts_region(fs))

are_blocks_applied(fs, domains) ==
    IF domains = <<>> THEN TRUE
    ELSE Contains(fs.hosts, BLOCK_START) /\ Contains(fs.hosts, BLOCK_END)

\* apps.kill_blocked_apps: every running process that matches a blocked name
kill_blocked_apps(running, app_names) == running \ Range(app_names)

----------------------------------------------------------------------------
(* daemon.py: the installer and the protection of the package *)

NotInstalled == [exists |-> FALSE, schg |-> FALSE, loaded |-> FALSE]
Installed == [exists |-> TRUE, schg |-> TRUE, loaded |-> TRUE]

\* install_daemon: refused unless root; bootout, write, chown, schg, bootstrap
install_daemon(fs, euid) ==
    IF euid # 0 THEN fs ELSE [fs EXCEPT !.plist = Installed]

install_daemon_ok(euid) == euid = 0

\* uninstall_daemon without the check of the effective user id
uninstall_daemon_unchecked(fs, euid) == [fs EXCEPT !.plist = NotInstalled]

\* uninstall_daemon: refused unless root; noschg, bootout, unlink
uninstall_daemon(fs, euid) ==
    IF euid # 0 THEN fs ELSE [fs EXCEPT !.plist = NotInstalled]

uninstall_daemon_ok(euid) == euid = 0

is_daemon_installed(fs) == fs.plist.exists

\* _protect_package that flips the flag it finds
protect_package_flips(fs, protect) == [fs EXCEPT !.pkg = ~fs.pkg]

protect_package(fs, protect) == [fs EXCEPT !.pkg = protect]

protect_plist(fs) ==
    LET created == IF ~fs.plist.exists
                   THEN [fs.plist EXCEPT !.exists = TRUE, !.schg = FALSE]
                   ELSE fs.plist
        flagged == [created EXCEPT !.schg = TRUE]
        needs_bootstrap == ~fs.plist.exists \/ ~flagged.loaded
    IN [fs EXCEPT !.plist = IF needs_bootstrap
                            THEN [flagged EXCEPT !.loaded = TRUE]
                            ELSE flagged]

\* _enforce_blocks, steps 1 to 6 (step 7 kills the blocked applications)
enforce_blocks(fs, sess, dns, writable) ==
    LET f1 == IF ~are_blocks_applied(fs, sess.blocked_domains)
              THEN apply_blocks(fs, sess.blocked_domains, dns, writable)
              ELSE fs
        f2 == IF ~f1.hostsSchg THEN [f1 EXCEPT !.hostsSchg = TRUE] ELSE f1
        f3 == IF ~are_pfctl_rules_applied(f2)
              THEN apply_pfctl_rules(f2, sess.blocked_domains, dns)
              ELSE f2
        f4 == IF ~is_session_immutable(f3) THEN set_session_immutable(f3) ELSE f3
    IN protect_package(protect_plist(f4), TRUE)

----------------------------------------------------------------------------
(* daemon.py: the schedule evaluator *)

DAY_NAMES == <<"Monday", "Tuesday", "Wednesday", "Thursday", "Friday",
               "Saturday", "Sunday">>

\* ZoneInfo(tz_name): the offset from UTC in seconds, or "invalid"
TzOffset(tz_name) ==
    CASE tz_name = "UTC" -> 0
      [] tz_name = "Etc/GMT-1" -> 3600
      [] OTHER -> -1

TzValid(tz_name) == tz_name \in {"UTC", "Etc/GMT-1"}

\* now.strftime("%Y-%m-%d"), as the number of the day, and now.strftime("%A")
TodayStr(t, off) == (t + off) \div SECONDS_PER_DAY
TodayDayName(t, off) == DAY_NAMES[((TodayStr(t, off) + 3) % 7) + 1]

\* map(int, start_time.split(":"))
StartTimeValid(start_time) == start_time \in {"00:00", "00:01", "09:00"}
ParseStartTime(start_time) ==
    CASE start_time = "00:00" -> <<0, 0>>
      [] start_time = "00:01" -> <<0, 1>>
      [] OTHER -> <<9, 0>>

WindowStart(schedule, t, off) ==
    LET hm == ParseStartTime(schedule.start_time)
    IN TodayStr(t, off) * SECONDS_PER_DAY - off + hm[1] * 3600 + hm[2] * 60

WindowEnd(schedule, t, off) ==
    WindowStart(schedule, t, off) + schedule.duration_minutes * 60

\* remaining_seconds taken as the length of the whole window
RemainingSeconds_whole_window(schedule, t, off) ==
    WindowEnd(schedule, t, off) - WindowStart(schedule, t, off)

RemainingSeconds(schedule, t, off) == WindowEnd(schedule, t, off) - t

StateGet(state, name) == {e[2] : e \in {x \in state : x[1] = name}}
StatePut(state, name, today) ==
    {x \in state : x[1] # name} \cup {<<name, today>>}

\* _try_trigger_schedule without the check of the day of the week
ShouldTrigger_any_day(name, schedule, config, state, file, t) ==
    LET off == TzOffset(schedule.timezone)
    IN /\ TzValid(schedule.timezone)
       /\ TodayStr(t, off) \notin StateGet(state, name)
       /\ StartTimeValid(schedule.start_time)
       /\ WindowStart(schedule, t, off) <= t
       /\ t < WindowEnd(schedule, t, off)
       /\ ~(RemainingSeconds(schedule, t, off) < MIN_REMAINING_SECONDS)
       /\ LET active == load_session(file)
          IN ~(active # NoSession /\ verify(active) /\ ~is_expired(active, t))
       /\ schedule.profile \in DOMAIN config.profiles
       /\ LET lists == BlockedLists[schedule.profile]
          IN ~(lists.domains = <<>> /\ lists.apps = <<>>)

\* _try_trigger_schedule up to "Apply blocks": whether this schedule fires
ShouldTrigger(name, schedule, config, state, file, t) ==
    LET off == TzOffset(schedule.timezone)
    IN /\ TzValid(schedule.timezone)
       /\ TodayDayName(t, off) \in schedule.days
       /\ TodayStr(t, off) \notin StateGet(state, name)
       /\ StartTimeValid(schedule.start_time)
       /\ WindowStart(schedule, t, off) <= t
       /\ t < WindowEnd(schedule, t, off)
       /\ ~(RemainingSeconds(schedule, t, off) < MIN_REMAINING_SECONDS)
       /\ LET active == load_session(file)
          IN ~(active # NoSession /\ verify(active) /\ ~is_expired(active, t))
       /\ schedule.profile \in DOMAIN config.profiles
       /\ LET lists == BlockedLists[schedule.profile]
          IN ~(lists.domains = <<>> /\ lists.apps = <<>>)

ScheduleNames == <<"morning">>

\* config.schedules.items(): the schedules of the configuration, in its order
ScheduleOrder == ScheduleNames \o <<"evening">>
PendingNames(config) ==
    SelectSeq(ScheduleOrder, LAMBDA n : n \in DOMAIN config.schedules)

PruneStale(state, config) == {x \in state : x[1] \in DOMAIN config.schedules}

----------------------------------------------------------------------------
(* daemon.py: the classification a tick makes of the loaded record *)

\* the tick without the is_clock_tampered branch
Classify_skips_clock_check(file, t) ==
    IF file.kind # "record" THEN "None"
    ELSE IF file.hmac_signature # compute_hmac(file) THEN "TamperedSignature"
    ELSE IF t >= file.end_time THEN "Expired"
    ELSE "Active"

\* the tick without the verify branch
Classify_skips_verify(file, t) ==
    IF file.kind # "record" THEN "None"
    ELSE IF t < file.start_time \/ t - file.start_time > 2 * file.duration_seconds
         THEN "TamperedClock"
    ELSE IF t >= file.end_time THEN "Expired"
    ELSE "Active"

Classify(file, t) ==
    LET sess == load_session(file)
    IN IF sess = NoSession THEN "None"
       ELSE IF ~verify(sess) THEN "TamperedSignature"
       ELSE IF is_clock_tampered(sess, t) THEN "TamperedClock"
       ELSE IF is_expired(sess, t) THEN "Expired"
       ELSE "Active"

----------------------------------------------------------------------------
(* The initial state: a fresh machine, the service registered or not *)

ORIGINAL_HOSTS == <<"127.0.0.1 localhost", "">>

NoTrig == [name |-> "", remaining |-> 0, today |-> 0, pending |-> <<>>,
           state |-> {}, domains |-> <<>>, apps |-> <<>>]
NoArgs == [profile_name |-> "", duration_seconds |-> 0,
           domains |-> <<>>, apps |-> <<>>]
NoPure == [start_time |-> 0, duration_seconds |-> 0, t |-> 0]

InitSystem ==
    /\ now = 0
    /\ sessionFile = NoFile
    /\ sessionSchg = FALSE
    /\ hostsFile = ORIGINAL_HOSTS
    /\ hostsSchg = FALSE
    /\ pfAnchor = {}
    /\ pfRulesFile = FALSE
    /\ pfTokenFile = FALSE
    /\ packageSchg = FALSE
    /\ plist \in {NotInstalled, Installed}
    /\ scheduleState = {}
    /\ procs = {"Discord"}
    /\ pcW = "down"
    /\ wClass = "None"
    /\ wSess = NoSession
    /\ wTrig = NoTrig
    /\ pcL = "idle"
    /\ lArgs = NoArgs
    /\ owedUntil = 0
    /\ crashes = 0

NoOut == [op |-> "", msg |-> "", code |-> 0, ret |-> FALSE]

\* Nobody watches the output, and the configuration is the one above
InitQuiet ==
    /\ observing = {}
    /\ schedules = Config.schedules
    /\ out = NoOut
    /\ scheduleCreated = {}

Init == InitSystem /\ InitQuiet /\ pureIn = NoPure /\ pureOut = <<>>

\* print_error / print_success / _log, and sys.exit(code) or the value returned
\* every exit observed as status 0
Report_exit_zero(op, msg, code, ret) ==
    out' = IF op \in observing THEN [op |-> op, msg |-> msg, code |-> 0, ret |-> ret] ELSE out

Report(op, msg, code, ret) ==
    out' = IF op \in observing THEN [op |-> op, msg |-> msg, code |-> code, ret |-> ret]
           ELSE out

\* load_config(): the profiles above and the schedules on disk
LoadedConfig == [Config EXCEPT !.schedules = schedules]

\* The obligation a created record adds, and its discharge by the clock
Owe(end_time) == IF end_time > owedUntil THEN end_time ELSE owedUntil
Discharge(t) == IF t >= owedUntil THEN 0 ELSE owedUntil

----------------------------------------------------------------------------
(* The clock *)

\* Both processes are between transactions: the watchdog sleeps (or is down)
\* and no Begin-Session is running.  A tick and a Begin-Session take
\* milliseconds; the clock of the model moves in steps of a minute.
Quiescent == pcW \in {"sleep", "down"} /\ pcL = "idle"

\* a record on disk that verifies and has not expired
ActiveSession == get_active_session(sessionFile, now) # NoSession

Tick ==
    /\ Quiescent
    /\ now + ClockStep <= MaxTime
    /\ now' = now + ClockStep
    /\ owedUntil' = Discharge(now + ClockStep)
    /\ UNCHANGED <<diskVars, procs, watchdogVars, launcherVars, crashes, pureVars, cfgVars, obsVars>>

----------------------------------------------------------------------------
(* daemon.py: watchdog_loop, one action per step of a tick *)

\* launchd starts the registered service (RunAtLoad, KeepAlive)
WatchdogStart ==
    /\ pcW = "down"
    /\ plist.loaded
    /\ pcW' = "sleep"
    /\ UNCHANGED <<now, diskVars, procs, wClass, wSess, wTrig, launcherVars,
                   owedUntil, crashes, pureVars, cfgVars, obsVars>>

\* sess is None: warn if the sentinel is there, then _check_schedules
ORPHAN_WARNING == "WARNING: No session file but blocks exist"

WTickNone ==
    /\ pcW = "sleep"
    /\ Classify(sessionFile, now) = "None"
    /\ wClass' = "None"
    /\ wSess' = NoSession
    /\ IF DOMAIN schedules = {}
       THEN /\ pcW' = "sleep"
            /\ UNCHANGED <<scheduleState, wTrig>>
       ELSE LET pruned == PruneStale(scheduleState, LoadedConfig)
            IN /\ scheduleState' = pruned
               /\ wTrig' = [NoTrig EXCEPT !.pending = PendingNames(LoadedConfig),
                                          !.state = pruned]
               /\ pcW' = "try_trigger"
    /\ IF Contains(hostsFile, BLOCK_START)
       THEN Report("tick", ORPHAN_WARNING, 0, FALSE)
       ELSE UNCHANGED out
    /\ UNCHANGED <<now, sessionFile, sessionSchg, hostsFile, hostsSchg, pfAnchor,
                   pfRulesFile, pfTokenFile, packageSchg, plist, procs,
                   launcherVars, owedUntil, crashes, pureVars, cfgVars,
                   scheduleCreated>>

\* not sess.verify(): log, sleep
WTickTamperedSignature ==
    /\ pcW = "sleep"
    /\ Classify(sessionFile, now) = "TamperedSignature"
    /\ wClass' = "TamperedSignature"
    /\ wSess' = NoSession
    /\ UNCHANGED <<now, diskVars, procs, pcW, wTrig, launcherVars, owedUntil,
                   crashes, pureVars, cfgVars, obsVars>>

CLOCK_WARNING == "WARNING: Clock tampering detected"

\* sess.is_clock_tampered(): log, sleep
WTickTamperedClock ==
    /\ pcW = "sleep"
    /\ Classify(sessionFile, now) = "TamperedClock"
    /\ wClass' = "TamperedClock"
    /\ wSess' = NoSession
    /\ Report("tick", CLOCK_WARNING, 0, FALSE)
    /\ UNCHANGED <<now, diskVars, procs, pcW, wTrig, launcherVars, owedUntil,
                   crashes, pureVars, cfgVars, scheduleCreated>>

\* sess.is_expired: _cleanup
WTickExpired ==
    /\ pcW = "sleep"
    /\ Classify(sessionFile, now) = "Expired"
    /\ wClass' = "Expired"
    /\ wSess' = load_session(sessionFile)
    /\ pcW' = "cleanup_package"
    /\ UNCHANGED <<now, diskVars, procs, wTrig, launcherVars, owedUntil,
                   crashes, pureVars, cfgVars, obsVars>>

\* a watchdog that trusts the classification of its previous tick
WTickActive_cached ==
    /\ pcW = "sleep"
    /\ IF wClass = "Active"
         THEN load_session(sessionFile) # NoSession
         ELSE Classify(sessionFile, now) = "Active"
    /\ wClass' = "Active"
    /\ wSess' = load_session(sessionFile)
    /\ pcW' = "enforce"
    /\ UNCHANGED <<now, diskVars, procs, wTrig, launcherVars, owedUntil,
                   crashes, pureVars, cfgVars, obsVars>>

\* otherwise: _enforce_blocks
WTickActive ==
    /\ pcW = "sleep"
    /\ Classify(sessionFile, now) = "Active"
    /\ wClass' = "Active"
    /\ wSess' = load_session(sessionFile)
    /\ pcW' = "enforce"
    /\ UNCHANGED <<now, diskVars, procs, wTrig, launcherVars, owedUntil,
                   crashes, pureVars, cfgVars, obsVars>>

WEnforce(dns, writable) ==
    /\ pcW = "enforce"
    /\ Commit(enforce_blocks(Fs, wSess, dns, writable))
    /\ procs' = kill_blocked_apps(procs, wSess.blocked_apps)
    /\ pcW' = "sleep"
    /\ wSess' = NoSession
    /\ UNCHANGED <<now, wClass, wTrig, launcherVars, owedUntil, crashes, pureVars, cfgVars, obsVars>>

\* _cleanup that goes from the package straight to remove_blocks
WCleanupPackage_then_hosts ==
    /\ pcW = "cleanup_package"
    /\ Commit(protect_package(Fs, FALSE))
    /\ pcW' = "cleanup_hosts"
    /\ UNCHANGED <<now, procs, wClass, wSess, wTrig, launcherVars, owedUntil,
                   crashes, pureVars, cfgVars, obsVars>>

\* _cleanup step 1: _protect_package(protect=False)
WCleanupPackage ==
    /\ pcW = "cleanup_package"
    /\ Commit(protect_package(Fs, FALSE))
    /\ pcW' = "cleanup_session"
    /\ UNCHANGED <<now, procs, wClass, wSess, wTrig, launcherVars, owedUntil,
                   crashes, pureVars, cfgVars, obsVars>>

\* _cleanup step 2: session.delete_session()
WCleanupSession ==
    /\ pcW = "cleanup_session"
    /\ Commit(delete_session(Fs))
    /\ pcW' = "cleanup_hosts"
    /\ UNCHANGED <<now, procs, wClass, wSess, wTrig, launcherVars, owedUntil,
                   crashes, pureVars, cfgVars, obsVars>>

\* _cleanup step 3, remove_blocks: the hosts region
WCleanupHosts ==
    /\ pcW = "cleanup_hosts"
    /\ Commit(remove_hosts_region(Fs))
    /\ pcW' = "cleanup_pf"
    /\ UNCHANGED <<now, procs, wClass, wSess, wTrig, launcherVars, owedUntil,
                   crashes, pureVars, cfgVars, obsVars>>

\* remove_blocks when the write of /etc/hosts is refused: return False
WCleanupHostsRefused ==
    /\ pcW = "cleanup_hosts"
    /\ Commit(remove_blocks(Fs, FALSE))
    /\ pcW' = "sleep"
    /\ wSess' = NoSession
    /\ UNCHANGED <<now, procs, wClass, wTrig, launcherVars, owedUntil,
                   crashes, pureVars, cfgVars, obsVars>>

\* _cleanup step 3, remove_blocks: remove_pfctl_rules
WCleanupPf ==
    /\ pcW = "cleanup_pf"
    /\ Commit(remove_pfctl_rules(Fs))
    /\ pcW' = "sleep"
    /\ wSess' = NoSession
    /\ UNCHANGED <<now, procs, wClass, wTrig, launcherVars, owedUntil,
                   crashes, pureVars, cfgVars, obsVars>>

\* the end of one schedule's evaluation: the next schedule, or sleep
NextSchedule(trig) ==
    IF Len(trig.pending) > 1
    THEN /\ pcW' = "try_trigger"
         /\ wTrig' = [NoTrig EXCEPT !.pending = Tail(trig.pending),
                                    !.state = trig.state]
    ELSE /\ pcW' = "sleep"
         /\ wTrig' = NoTrig

\* _try_trigger_schedule that does not look for a session on disk
WTryTrigger_session_unchecked ==
    /\ pcW = "try_trigger"
    /\ LET name == Head(wTrig.pending)
           schedule == schedules[name]
           off == TzOffset(schedule.timezone)
           lists == BlockedLists[schedule.profile]
       IN IF ShouldTrigger(name, schedule, LoadedConfig, wTrig.state, NoFile, now)
          THEN /\ pcW' = "trigger_apply"
               /\ wTrig' = [wTrig EXCEPT !.name = name,
                               !.remaining = RemainingSeconds(schedule, now, off),
                               !.today = TodayStr(now, off),
                               !.domains = lists.domains,
                               !.apps = lists.apps]
          ELSE NextSchedule(wTrig)
    /\ UNCHANGED <<now, diskVars, procs, wClass, wSess, launcherVars, owedUntil,
                   crashes, pureVars, cfgVars, obsVars>>

\* _try_trigger_schedule, the checks
WTryTrigger ==
    /\ pcW = "try_trigger"
    /\ LET name == Head(wTrig.pending)
           schedule == schedules[name]
           off == TzOffset(schedule.timezone)
           lists == BlockedLists[schedule.profile]
       IN IF ShouldTrigger(name, schedule, LoadedConfig, wTrig.state, sessionFile, now)
          THEN /\ pcW' = "trigger_apply"
               /\ wTrig' = [wTrig EXCEPT !.name = name,
                               !.remaining = RemainingSeconds(schedule, now, off),
                               !.today = TodayStr(now, off),
                               !.domains = lists.domains,
                               !.apps = lists.apps]
          ELSE NextSchedule(wTrig)
    /\ UNCHANGED <<now, diskVars, procs, wClass, wSess, launcherVars, owedUntil,
                   crashes, pureVars, cfgVars, obsVars>>

\* _try_trigger_schedule: apply_blocks (its result is not looked at), kill
WTriggerApply(dns, writable) ==
    /\ pcW = "trigger_apply"
    /\ Commit(apply_blocks(Fs, wTrig.domains, dns, writable))
    /\ procs' = kill_blocked_apps(procs, wTrig.apps)
    /\ pcW' = "trigger_create"
    /\ UNCHANGED <<now, wClass, wSess, wTrig, launcherVars, owedUntil, crashes,
                   pureVars, cfgVars, obsVars>>

\* _try_trigger_schedule: session.create_session
WTriggerCreate ==
    /\ pcW = "trigger_create"
    /\ LET s == create_session(schedules[wTrig.name].profile, now,
                               wTrig.remaining, wTrig.domains, wTrig.apps)
       IN /\ Commit(save_session(Fs, s))
          /\ owedUntil' = Owe(s.end_time)
    /\ scheduleCreated' = IF "schedule" \in observing
                          THEN scheduleCreated \cup {<<wTrig.name, wTrig.today>>}
                          ELSE scheduleCreated
    /\ pcW' = "trigger_mark"
    /\ UNCHANGED <<now, procs, wClass, wSess, wTrig, launcherVars, crashes,
                   pureVars, cfgVars, out>>

\* _try_trigger_schedule: state[name] = today_str, _save_schedule_state
WTriggerMark ==
    /\ pcW = "trigger_mark"
    /\ LET state == StatePut(wTrig.state, wTrig.name, wTrig.today)
       IN /\ scheduleState' = state
          /\ NextSchedule([wTrig EXCEPT !.state = state])
    /\ UNCHANGED <<now, sessionFile, sessionSchg, hostsFile, hostsSchg, pfAnchor,
                   pfRulesFile, pfTokenFile, packageSchg, plist, procs, wClass,
                   wSess, launcherVars, owedUntil, crashes, pureVars, cfgVars, obsVars>>

----------------------------------------------------------------------------
(* cli.py: Begin-Session (--start-session), one action per step *)

\* _handle_start_session_shortcut and _do_start_session up to "Ensure daemon"
LCheck(euid, profile_name, duration_seconds) ==
    /\ pcL = "idle"
    /\ IF euid # 0 THEN
            /\ UNCHANGED <<diskVars, pcL, lArgs>>
            /\ Report("start_session", "--start-session requires root", 1, FALSE)
       ELSE IF get_active_session(sessionFile, now) # NoSession THEN
            /\ UNCHANGED <<diskVars, pcL, lArgs>>
            /\ Report("start_session", "A session is already active", 1, FALSE)
       ELSE IF profile_name \notin DOMAIN Config.profiles THEN
            /\ UNCHANGED <<diskVars, pcL, lArgs>>
            /\ Report("start_session", "Profile not found", 1, FALSE)
       ELSE LET lists == BlockedLists[profile_name]
            IN IF lists.domains = <<>> /\ lists.apps = <<>> THEN
                    /\ UNCHANGED <<diskVars, pcL, lArgs>>
                    /\ Report("start_session", "This profile has nothing to block",
                              1, FALSE)
               ELSE IF ~is_daemon_installed(Fs) /\ ~install_daemon_ok(euid) THEN
                    /\ UNCHANGED <<diskVars, pcL, lArgs>>
                    /\ Report("start_session", "Failed to install watchdog daemon",
                              1, FALSE)
               ELSE /\ Commit(IF is_daemon_installed(Fs) THEN Fs
                              ELSE install_daemon(Fs, euid))
                    /\ pcL' = "apply"
                    /\ lArgs' = [profile_name |-> profile_name,
                                 duration_seconds |-> duration_seconds,
                                 domains |-> lists.domains, apps |-> lists.apps]
                    /\ UNCHANGED out
    /\ UNCHANGED <<now, procs, watchdogVars, owedUntil, crashes, pureVars, cfgVars,
                   scheduleCreated>>

\* A duration string as the list of its <number><unit> groups; a group the
\* pattern does not know has unit "?"
DurationStrings ==
    {<<>>,
     <<[n |-> 1, unit |-> "m"]>>,
     <<[n |-> 0, unit |-> "m"]>>,
     <<[n |-> 0, unit |-> "h"], [n |-> 1, unit |-> "m"]>>,
     <<[n |-> 1, unit |-> "m"], [n |-> 1, unit |-> "h"]>>,
     <<[n |-> 1, unit |-> "?"]>>}

UnitRank(unit) == CASE unit = "h" -> 1 [] unit = "m" -> 2 [] unit = "s" -> 3 [] OTHER -> 0
UnitSeconds(unit) == CASE unit = "h" -> 3600 [] unit = "m" -> 60 [] OTHER -> 1

\* _parse_duration: -1 stands for None
parse_duration(str) ==
    LET matches == /\ \A i \in 1..Len(str) : UnitRank(str[i].unit) > 0
                   /\ \A i, j \in 1..Len(str) :
                         i < j => UnitRank(str[i].unit) < UnitRank(str[j].unit)
        part(unit) == IF \E i \in 1..Len(str) : str[i].unit = unit
                      THEN (CHOOSE x \in Range(str) : x.unit = unit).n * UnitSeconds(unit)
                      ELSE 0
        total == part("h") + part("m") + part("s")
    IN IF ~matches \/ str = <<>> THEN -1
       ELSE IF total > 0 THEN total ELSE -1

\* The arguments after --start-session: profile names and --duration <str>
StartArgs ==
    {[names |-> ns, duration |-> d] :
        ns \in {<<>>, <<"work">>, <<"work", "chat">>}, d \in DurationStrings}

\* _handle_start_session_shortcut below the root check: the message it exits
\* with, or "" when it goes on to _do_start_session
parse_start_args(args) ==
    IF Len(args.names) > 1 THEN "Unexpected argument"
    ELSE IF args.names = <<>> THEN "Missing profile name after --start-session."
    ELSE IF parse_duration(args.duration) = -1 THEN "Invalid duration"
    ELSE ""

\* _handle_start_session_shortcut with arguments it does not accept
LBadArgs(euid, args) ==
    /\ pcL = "idle"
    /\ euid = 0
    /\ parse_start_args(args) # ""
    /\ Report("start_session", parse_start_args(args), 1, FALSE)
    /\ UNCHANGED <<now, diskVars, procs, watchdogVars, launcherVars, owedUntil,
                   crashes, pureVars, cfgVars, scheduleCreated>>

\* _do_start_session: apply_blocks, then kill_blocked_apps
LApply(dns, writable) ==
    /\ pcL = "apply"
    /\ Commit(apply_blocks(Fs, lArgs.domains, dns, writable))
    /\ IF apply_blocks_ok(lArgs.domains, writable)
       THEN /\ procs' = kill_blocked_apps(procs, lArgs.apps)
            /\ pcL' = "create"
            /\ UNCHANGED <<lArgs, out>>
       ELSE /\ pcL' = "idle"
            /\ lArgs' = NoArgs
            /\ Report("start_session", "Failed to apply website blocks", 1, FALSE)
            /\ UNCHANGED procs
    /\ UNCHANGED <<now, watchdogVars, owedUntil, crashes, pureVars, cfgVars,
                   scheduleCreated>>

\* _do_start_session: create_session
LCreate ==
    /\ pcL = "create"
    /\ LET s == create_session(lArgs.profile_name, now, lArgs.duration_seconds,
                               lArgs.domains, lArgs.apps)
       IN /\ Commit(save_session(Fs, s))
          /\ owedUntil' = Owe(s.end_time)
    /\ pcL' = "idle"
    /\ lArgs' = NoArgs
    /\ Report("start_session", "Focus session started!", 0, FALSE)
    /\ UNCHANGED <<now, procs, watchdogVars, crashes, pureVars, cfgVars,
                   scheduleCreated>>

\* _do_start_session when install_daemon returns False as root: the plist is
\* written and flagged, and launchctl bootstrap fails
LInstallFails(profile_name) ==
    /\ pcL = "idle"
    /\ get_active_session(sessionFile, now) = NoSession
    /\ profile_name \in DOMAIN Config.profiles
    /\ BlockedLists[profile_name].domains # <<>> \/ BlockedLists[profile_name].apps # <<>>
    /\ ~is_daemon_installed(Fs)
    /\ Commit([Fs EXCEPT !.plist = [exists |-> TRUE, schg |-> TRUE, loaded |-> FALSE]])
    /\ Report("start_session", "Failed to install watchdog daemon", 1, FALSE)
    /\ UNCHANGED <<now, procs, watchdogVars, launcherVars, owedUntil, crashes,
                   pureVars, cfgVars, scheduleCreated>>

----------------------------------------------------------------------------
(* The user, who is root: edits of the session file and of the clock *)

\* chflags noschg, then rewrite one field and keep the signature: end_time
\* (to fake the expiry) or duration_seconds
UserEditSession(field) ==
    /\ Quiescent
    /\ sessionFile.kind = "record"
    /\ verify(sessionFile)
    /\ sessionFile' =
          IF field = "end_time"
          THEN [sessionFile EXCEPT !.end_time = sessionFile.start_time]
          ELSE [sessionFile EXCEPT !.duration_seconds = 0]
    /\ sessionSchg' = FALSE
    /\ UNCHANGED <<now, hostsFile, hostsSchg, pfAnchor, pfRulesFile, pfTokenFile,
                   packageSchg, plist, scheduleState, procs, watchdogVars,
                   launcherVars, owedUntil, crashes, pureVars, cfgVars, obsVars>>

\* chflags noschg, then overwrite with text that is not JSON
UserCorruptSession ==
    /\ Quiescent
    /\ sessionFile.kind = "record"
    /\ sessionFile' = Garbage
    /\ sessionSchg' = FALSE
    /\ UNCHANGED <<now, hostsFile, hostsSchg, pfAnchor, pfRulesFile, pfTokenFile,
                   packageSchg, plist, scheduleState, procs, watchdogVars,
                   launcherVars, owedUntil, crashes, pureVars, cfgVars, obsVars>>

\* chflags noschg, then rm
UserDeleteSession ==
    /\ Quiescent
    /\ sessionFile # NoFile
    /\ sessionFile' = NoFile
    /\ sessionSchg' = FALSE
    /\ UNCHANGED <<now, hostsFile, hostsSchg, pfAnchor, pfRulesFile, pfTokenFile,
                   packageSchg, plist, scheduleState, procs, watchdogVars,
                   launcherVars, owedUntil, crashes, pureVars, cfgVars, obsVars>>

\* date -u: the clock set to another instant
UserSetClock(t) ==
    /\ Quiescent
    /\ sessionFile # NoFile
    /\ t # now
    /\ now' = t
    /\ owedUntil' = Discharge(t)
    /\ UNCHANGED <<diskVars, procs, watchdogVars, launcherVars, crashes, pureVars, cfgVars, obsVars>>

\* the user deletes a schedule from the configuration file
UserRemoveSchedule(name) ==
    /\ pcW \in {"sleep", "down"}
    /\ name \in DOMAIN schedules
    /\ schedules' = [n \in DOMAIN schedules \ {name} |-> schedules[n]]
    /\ UNCHANGED <<now, diskVars, procs, watchdogVars, launcherVars, owedUntil,
                   crashes, pureVars, observing, obsVars>>

----------------------------------------------------------------------------
(* daemon.py _setup_signal_handlers: SIGTERM or SIGINT sent to the watchdog *)

\* _signal_handler that ignores the signal when the session has expired
signal_ignored_when_expired(file, t) ==
    LET sess == load_session(file)
    IN /\ sess # NoSession
       /\ verify(sess)
       /\ is_expired(sess, t)

\* _signal_handler: TRUE when the handler returns, FALSE when it calls sys.exit(0)
signal_ignored(file, t) ==
    LET sess == load_session(file)
    IN /\ sess # NoSession
       /\ verify(sess)
       /\ ~is_expired(sess, t)

\* The handler runs between two steps of watchdog_loop; SystemExit is not
\* caught by the loop's `except Exception`
SignalWatchdog ==
    /\ pcW # "down"
    /\ IF signal_ignored(sessionFile, now)
       THEN /\ Report("signal", "Ignoring signal", 0, FALSE)
            /\ UNCHANGED <<pcW, wSess, wTrig>>
       ELSE /\ Report("signal", "Received signal, exiting", 0, FALSE)
            /\ pcW' = "down"
            /\ wSess' = NoSession
            /\ wTrig' = NoTrig
    /\ UNCHANGED <<now, diskVars, procs, wClass, launcherVars, owedUntil, crashes,
                   pureVars, cfgVars, scheduleCreated>>

----------------------------------------------------------------------------
(* cli.py _flow_settings, choices 2 and 3, and the two functions they call *)

\* launchctl bootout stops the watchdog that the registration started
Bootout(fs) ==
    IF fs.plist.exists
    THEN /\ pcW' = "down"
         /\ wSess' = NoSession
         /\ wTrig' = NoTrig
    ELSE UNCHANGED <<pcW, wSess, wTrig>>

\* install_daemon() called by a process with effective user id euid
CallInstallDaemon(euid) ==
    /\ Commit(install_daemon(Fs, euid))
    /\ Report("install_daemon", "", 0, install_daemon_ok(euid))
    /\ IF euid = 0 THEN Bootout(Fs) ELSE UNCHANGED <<pcW, wSess, wTrig>>
    /\ UNCHANGED <<now, procs, wClass, launcherVars, owedUntil, crashes,
                   pureVars, cfgVars, scheduleCreated>>

\* uninstall_daemon() called by a process with effective user id euid
CallUninstallDaemon(euid) ==
    /\ Commit(uninstall_daemon(Fs, euid))
    /\ Report("uninstall_daemon", "", 0, uninstall_daemon_ok(euid))
    /\ IF euid = 0 THEN Bootout(Fs) ELSE UNCHANGED <<pcW, wSess, wTrig>>
    /\ UNCHANGED <<now, procs, wClass, launcherVars, owedUntil, crashes,
                   pureVars, cfgVars, scheduleCreated>>

\* choice 2: install the watchdog
SettingsInstall(euid) ==
    /\ IF euid # 0
       THEN /\ Report("settings", "Installing the daemon requires root", 0, FALSE)
            /\ UNCHANGED <<diskVars, pcW, wSess, wTrig>>
       ELSE /\ Commit(install_daemon(Fs, euid))
            /\ Bootout(Fs)
            /\ Report("settings", "Watchdog daemon installed and loaded.", 0,
                      install_daemon_ok(euid))
    /\ UNCHANGED <<now, procs, wClass, launcherVars, owedUntil, crashes,
                   pureVars, cfgVars, scheduleCreated>>

\* choice 3: uninstall the watchdog
SettingsUninstall(euid) ==
    /\ IF euid # 0
       THEN /\ Report("settings", "Uninstalling the daemon requires root", 0, FALSE)
            /\ UNCHANGED <<diskVars, pcW, wSess, wTrig>>
       ELSE IF get_active_session(sessionFile, now) # NoSession
       THEN /\ Report("settings", "Cannot uninstall while a focus session is active.",
                      0, FALSE)
            /\ UNCHANGED <<diskVars, pcW, wSess, wTrig>>
       ELSE /\ Commit(uninstall_daemon(Fs, euid))
            /\ Bootout(Fs)
            /\ Report("settings", "Watchdog daemon uninstalled.", 0,
                      uninstall_daemon_ok(euid))
    /\ UNCHANGED <<now, procs, wClass, launcherVars, owedUntil, crashes,
                   pureVars, cfgVars, scheduleCreated>>

----------------------------------------------------------------------------
(* daemon.py _enforce_blocks, one action per numbered step *)

\* the position of the watchdog before each of the seven steps
EnforcePcs == <<"enforce", "enforce_2", "enforce_3", "enforce_4", "enforce_5",
               "enforce_6", "enforce_7">>

\* steps 1 to 6 of _enforce_blocks, each a diagnosis and a repair
enforce_step(k, fs, sess, dns, writable) ==
    CASE k = 1 -> IF ~are_blocks_applied(fs, sess.blocked_domains)
                  THEN apply_blocks(fs, sess.blocked_domains, dns, writable)
                  ELSE fs
      [] k = 2 -> IF ~fs.hostsSchg THEN [fs EXCEPT !.hostsSchg = TRUE] ELSE fs
      [] k = 3 -> IF ~are_pfctl_rules_applied(fs)
                  THEN apply_pfctl_rules(fs, sess.blocked_domains, dns)
                  ELSE fs
      [] k = 4 -> IF ~is_session_immutable(fs) THEN set_session_immutable(fs) ELSE fs
      [] k = 5 -> protect_plist(fs)
      [] OTHER -> protect_package(fs, TRUE)

\* what steps 1 to 4 log when they find their layer missing
ENFORCE_LOG == <<"Blocks missing from /etc/hosts, re-applying",
                 "Immutable flag missing, re-setting",
                 "pfctl rules missing, re-applying",
                 "Session file immutable flag missing, re-setting">>

\* whether step k of _enforce_blocks finds its layer missing
enforce_missing(k, fs, sess) ==
    CASE k = 1 -> ~are_blocks_applied(fs, sess.blocked_domains)
      [] k = 2 -> ~fs.hostsSchg
      [] k = 3 -> ~are_pfctl_rules_applied(fs)
      [] k = 4 -> ~is_session_immutable(fs)
      [] OTHER -> FALSE

\* one step of _enforce_blocks; step 7 kills the blocked applications
WEnforceStep(dns, writable) ==
    /\ \E k \in 1..7 :
          /\ pcW = EnforcePcs[k]
          /\ IF k < 7
             THEN /\ Commit(enforce_step(k, Fs, wSess, dns, writable))
                  /\ IF enforce_missing(k, Fs, wSess)
                     THEN Report("tick", ENFORCE_LOG[k], 0, FALSE)
                     ELSE UNCHANGED out
                  /\ pcW' = EnforcePcs[k + 1]
                  /\ UNCHANGED <<procs, wSess>>
             ELSE /\ procs' = kill_blocked_apps(procs, wSess.blocked_apps)
                  /\ pcW' = "sleep"
                  /\ wSess' = NoSession
                  /\ UNCHANGED <<diskVars, out>>
    /\ UNCHANGED <<now, wClass, wTrig, launcherVars, owedUntil, crashes, pureVars,
                   cfgVars, scheduleCreated>>

\* The protections a user with root can take away between two ticks
Layers == {"hosts_region", "hosts_lines", "hosts_flag", "anchor", "session_flag",
           "plist", "plist_flag", "package", "app"}

\* /etc/hosts with the lines between the sentinels deleted
EmptiedRegion(content) ==
    strip_existing_blocks(content) \o <<"", BLOCK_START, BLOCK_END, "">>

UserDrift(layer) ==
    /\ Quiescent
    /\ ActiveSession
    /\ CASE layer = "hosts_region" ->
              /\ hostsFile' = RemovedContent(hostsFile)
              /\ hostsSchg' = FALSE
              /\ UNCHANGED <<sessionSchg, pfAnchor, plist, packageSchg, procs>>
         [] layer = "hosts_lines" ->
              /\ Contains(hostsFile, BLOCK_START)
              /\ hostsFile' = EmptiedRegion(hostsFile)
              /\ hostsSchg' = FALSE
              /\ UNCHANGED <<sessionSchg, pfAnchor, plist, packageSchg, procs>>
         [] layer = "hosts_flag" ->
              /\ hostsSchg' = FALSE
              /\ UNCHANGED <<hostsFile, sessionSchg, pfAnchor, plist, packageSchg, procs>>
         [] layer = "anchor" ->
              /\ pfAnchor' = {}
              /\ UNCHANGED <<hostsFile, hostsSchg, sessionSchg, plist, packageSchg, procs>>
         [] layer = "session_flag" ->
              /\ sessionSchg' = FALSE
              /\ UNCHANGED <<hostsFile, hostsSchg, pfAnchor, plist, packageSchg, procs>>
         [] layer = "plist" ->
              /\ plist' = [plist EXCEPT !.exists = FALSE, !.schg = FALSE]
              /\ UNCHANGED <<hostsFile, hostsSchg, sessionSchg, pfAnchor, packageSchg, procs>>
         [] layer = "plist_flag" ->
              /\ plist' = [plist EXCEPT !.schg = FALSE]
              /\ UNCHANGED <<hostsFile, hostsSchg, sessionSchg, pfAnchor, packageSchg, procs>>
         [] layer = "package" ->
              /\ packageSchg' = FALSE
              /\ UNCHANGED <<hostsFile, hostsSchg, sessionSchg, pfAnchor, plist, procs>>
         [] OTHER ->
              /\ procs' = procs \cup {"Discord"}
              /\ UNCHANGED <<hostsFile, hostsSchg, sessionSchg, pfAnchor, plist, packageSchg>>
    /\ UNCHANGED <<now, sessionFile, pfRulesFile, pfTokenFile, scheduleState,
                   watchdogVars, launcherVars, owedUntil, crashes, pureVars, cfgVars,
                   obsVars>>

----------------------------------------------------------------------------
(* daemon.py watchdog_loop and _check_schedules: an exception inside a tick *)

TriggerPcs == {"try_trigger", "trigger_apply", "trigger_create", "trigger_mark"}

\* a loop without the try of _check_schedules and of watchdog_loop
exception_handler_none(pc) == "down"

\* Where an exception raised at position pc is caught: by the `except
\* Exception` around _try_trigger_schedule or by the one of watchdog_loop
exception_handler(pc) ==
    IF pc \in TriggerPcs THEN "_check_schedules" ELSE "watchdog_loop"

\* Any call of a tick raises an Exception (a subprocess that cannot be run,
\* a file that cannot be decoded, a full disk)
WException ==
    /\ pcW # "down"
    /\ LET handler == exception_handler(pcW)
       IN CASE handler = "_check_schedules" ->
                 /\ Report("tick", "ERROR checking schedule", 0, FALSE)
                 /\ NextSchedule(wTrig)
                 /\ UNCHANGED wSess
            [] handler = "watchdog_loop" ->
                 /\ Report("tick", "ERROR in watchdog loop", 0, FALSE)
                 /\ pcW' = "sleep"
                 /\ wSess' = NoSession
                 /\ wTrig' = NoTrig
            [] OTHER ->
                 /\ pcW' = "down"
                 /\ wSess' = NoSession
                 /\ wTrig' = NoTrig
                 /\ UNCHANGED out
    /\ UNCHANGED <<now, diskVars, procs, wClass, launcherVars, owedUntil, crashes,
                   pureVars, cfgVars, scheduleCreated>>

----------------------------------------------------------------------------
(* Crashes: SIGKILL or power loss at any step; `counted` bounds their number *)

KillWatchdog(counted) ==
    /\ pcW # "down"
    /\ counted => crashes < MaxCrashes
    /\ crashes' = IF counted THEN crashes + 1 ELSE crashes
    /\ pcW' = "down"
    /\ wSess' = NoSession
    /\ wTrig' = NoTrig
    /\ UNCHANGED <<now, diskVars, procs, wClass, launcherVars, owedUntil, pureVars, cfgVars, obsVars>>

KillLauncher(counted) ==
    /\ pcL # "idle"
    /\ counted => crashes < MaxCrashes
    /\ crashes' = IF counted THEN crashes + 1 ELSE crashes
    /\ pcL' = "idle"
    /\ lArgs' = NoArgs
    /\ UNCHANGED <<now, diskVars, procs, watchdogVars, owedUntil, pureVars, cfgVars, obsVars>>

\* the watchdog killed between two ticks or inside a re-assert step, while
\* a verified non-expired session exists
KillDuringSession ==
    /\ \/ pcW \in Range(EnforcePcs)
       \/ pcW = "sleep" /\ ActiveSession
    /\ KillWatchdog(TRUE)

----------------------------------------------------------------------------
(* Specifications *)

Euids == {0, 501}

WatchdogTick ==
    \/ WTickNone
    \/ WTickTamperedClock
    \/ WTickExpired
    \/ WTickActive
    \/ \E dns \in DnsAnswers : WEnforce(dns, TRUE)
    \/ WCleanupPackage
    \/ WCleanupSession
    \/ WCleanupHosts
    \/ WCleanupPf
    \/ WTryTrigger
    \/ \E dns \in DnsAnswers : WTriggerApply(dns, TRUE)
    \/ WTriggerCreate
    \/ WTriggerMark

WatchdogRefused ==
    \/ WCleanupHostsRefused
    \/ \E dns \in DnsAnswers : WEnforce(dns, FALSE)
    \/ \E dns \in DnsAnswers : WTriggerApply(dns, FALSE)

Launcher ==
    \/ \E euid \in Euids, p \in ProfileArgs, d \in Durations : LCheck(euid, p, d)
    \/ \E dns \in DnsAnswers : LApply(dns, TRUE)
    \/ LCreate

LauncherRefused == \E dns \in DnsAnswers : LApply(dns, FALSE)

User ==
    \/ \E field \in {"end_time", "duration_seconds"} : UserEditSession(field)
    \/ UserCorruptSession
    \/ UserDeleteSession
    \/ \E t \in Times : UserSetClock(t)

\* Every process and the user, interleaved step by step
Next ==
    \/ Tick
    \/ WatchdogStart
    \/ WatchdogTick
    \/ WTickTamperedSignature
    \/ WatchdogRefused
    \/ Launcher
    \/ LauncherRefused
    \/ User
    \/ KillWatchdog(FALSE)
    \/ KillLauncher(FALSE)

Spec == Init /\ [][Next]_vars

\* No user edits: the processes, the clock, crashes and refused writes.
\* launchd keeps the watchdog running and the clock does not stop.
LauncherHonest ==
    \/ \E euid \in Euids, p \in ProfileArgs,
          d \in {x \in Durations : now + x <= MaxTime} : LCheck(euid, p, d)
    \/ \E dns \in DnsAnswers : LApply(dns, TRUE)
    \/ LCreate

NextHonest ==
    \/ Tick
    \/ WatchdogStart
    \/ WatchdogTick
    \/ WatchdogRefused
    \/ LauncherHonest
    \/ LauncherRefused
    \/ KillWatchdog(TRUE)
    \/ KillLauncher(TRUE)

\* A process that is not killed takes its next step, launchd restarts the
\* registered watchdog, and the clock advances however often the processes run.
LauncherRun ==
    \/ \E dns \in DnsAnswers, writable \in BOOLEAN : LApply(dns, writable)
    \/ LCreate

SpecHonest ==
    /\ Init
    /\ [][NextHonest]_vars
    /\ SF_vars(Tick)
    /\ WF_vars(WatchdogStart \/ WatchdogTick)
    /\ WF_vars(LauncherRun)

\* A tick runs to its end without another process stepping in between and
\* without a refused write.
WatchdogAtRest == pcW \in {"sleep", "down"}

NextTick ==
    \/ Tick
    \/ WatchdogStart
    \/ WatchdogTick
    \/ WTickTamperedSignature
    \/ WatchdogAtRest /\ Launcher
    \/ User
    \/ KillWatchdog(FALSE)

SpecTick == Init /\ [][NextTick]_vars

\* The system at rest with the messages and results of `ops` observed
InitObserving(ops) ==
    /\ InitSystem
    /\ observing = ops
    /\ schedules = Config.schedules
    /\ out = NoOut
    /\ scheduleCreated = {}
    /\ pureIn = NoPure
    /\ pureOut = <<>>

\* The watchdog, the launcher, a user who edits the session file, the signals
\* and the settings menu
InitOps == InitObserving({"signal", "settings"})

NextOps ==
    \/ Tick
    \/ WatchdogStart
    \/ WatchdogTick
    \/ WTickTamperedSignature
    \/ Launcher
    \/ UserEditSession("duration_seconds")
    \/ SignalWatchdog
    \/ \E euid \in Euids : SettingsInstall(euid)
    \/ \E euid \in Euids : SettingsUninstall(euid)

SpecOps == InitOps /\ [][NextOps]_vars

\* The watchdog with exceptions raised inside its ticks and signals sent to
\* it, the launcher and a user who edits the session file
InitFault == InitObserving({"tick", "signal"})

NextFault ==
    \/ Tick
    \/ WatchdogStart
    \/ WatchdogTick
    \/ WTickTamperedSignature
    \/ Launcher
    \/ UserEditSession("duration_seconds")
    \/ WException
    \/ SignalWatchdog

SpecFault == InitFault /\ [][NextFault]_vars

\* The watchdog with _enforce_blocks taken step by step, a user who takes
\* protections away while a session is active, and crashes of the watchdog;
\* the writes succeed and the resolver answers
NextDrift ==
    \/ Tick
    \/ WatchdogStart
    \/ WTickNone
    \/ WTickExpired
    \/ WTickActive
    \/ \E dns \in DnsAnswers \ {"gaierror"} : WEnforceStep(dns, TRUE)
    \/ WCleanupPackage
    \/ WCleanupSession
    \/ WCleanupHosts
    \/ WCleanupPf
    \/ WTryTrigger
    \/ \E dns \in DnsAnswers \ {"gaierror"} : WTriggerApply(dns, TRUE)
    \/ WTriggerCreate
    \/ WTriggerMark
    \/ \E layer \in Layers : UserDrift(layer)
    \/ KillDuringSession

InitDrift == InitObserving({"tick"})

SpecDrift == InitDrift /\ [][NextDrift]_vars

\* The watchdog with its log observed, a user who deletes the session file
\* or sets the clock, and crashes of the watchdog: the ways a hosts region is left without a record
InitOrphan == InitObserving({"tick"})

NextOrphan ==
    \/ Tick
    \/ WatchdogStart
    \/ WatchdogTick
    \/ UserDeleteSession
    \/ \E t \in Times : UserSetClock(t)
    \/ KillWatchdog(TRUE)

SpecOrphan == InitOrphan /\ [][NextOrphan]_vars

\* The watchdog left to run, with writes of /etc/hosts that succeed and a
\* teardown whose write of /etc/hosts can be refused; the watchdog takes its
\* next step and the clock advances
RetryRun ==
    \/ WatchdogStart
    \/ WTickNone
    \/ WTickExpired
    \/ WTickActive
    \/ \E dns \in DnsAnswers : WEnforce(dns, TRUE)
    \/ WCleanupPackage
    \/ WCleanupSession
    \/ WCleanupHosts
    \/ WCleanupPf
    \/ WTryTrigger
    \/ \E dns \in DnsAnswers : WTriggerApply(dns, TRUE)
    \/ WTriggerCreate
    \/ WTriggerMark

NextRetry ==
    \/ Tick
    \/ RetryRun
    \/ WCleanupHostsRefused

SpecRetry ==
    /\ Init
    /\ [][NextRetry]_vars
    /\ SF_vars(Tick)
    /\ WF_vars(RetryRun)

\* The watchdog left to run while the user deletes schedules from the
\* configuration
NextPrune ==
    \/ Tick
    \/ WatchdogStart
    \/ WTickNone
    \/ WTickExpired
    \/ WTickActive
    \/ \E dns \in DnsAnswers : WEnforce(dns, TRUE)
    \/ WCleanupPackage
    \/ WCleanupSession
    \/ WCleanupHosts
    \/ WCleanupPf
    \/ WTryTrigger
    \/ \E dns \in DnsAnswers : WTriggerApply(dns, TRUE)
    \/ WTriggerCreate
    \/ WTriggerMark
    \/ \E name \in Range(ScheduleOrder) : UserRemoveSchedule(name)

SpecPrune == Init /\ [][NextPrune]_vars

\* Every operation of the system that could touch the package: the ticks of
\* every classification with _enforce_blocks taken step by step, Begin-Session,
\* the installer, and a user who edits the session record
NextPackage ==
    \/ Tick
    \/ WatchdogStart
    \/ WTickNone
    \/ WTickTamperedSignature
    \/ WTickTamperedClock
    \/ WTickExpired
    \/ WTickActive
    \/ \E dns \in DnsAnswers : WEnforceStep(dns, TRUE)
    \/ WCleanupPackage
    \/ WCleanupSession
    \/ WCleanupHosts
    \/ WCleanupPf
    \/ WTryTrigger
    \/ \E dns \in DnsAnswers : WTriggerApply(dns, TRUE)
    \/ WTriggerCreate
    \/ WTriggerMark
    \/ Launcher
    \/ UserEditSession("duration_seconds")
    \/ \E euid \in Euids : CallInstallDaemon(euid)
    \/ \E euid \in Euids : CallUninstallDaemon(euid)

SpecPackage == Init /\ [][NextPackage]_vars

\* The watchdog left to run under configurations of two schedules
PassVariants ==
    LET base == Config.schedules["morning"]
    IN {base,
        [base EXCEPT !.profile = "chat"],
        [base EXCEPT !.start_time = "00:01"],
        [base EXCEPT !.days = {"Friday"}]}

InitPass ==
    /\ InitSystem
    /\ observing = {"schedule"}
    /\ schedules \in [{"morning", "evening"} -> PassVariants]
    /\ out = NoOut
    /\ scheduleCreated = {}
    /\ pureIn = NoPure
    /\ pureOut = <<>>

NextPass ==
    \/ Tick
    \/ WatchdogStart
    \/ WTickNone
    \/ WTickExpired
    \/ WTickActive
    \/ \E dns \in DnsAnswers : WEnforce(dns, TRUE)
    \/ WCleanupPackage
    \/ WCleanupSession
    \/ WCleanupHosts
    \/ WCleanupPf
    \/ WTryTrigger
    \/ \E dns \in DnsAnswers : WTriggerApply(dns, TRUE)
    \/ WTriggerCreate
    \/ WTriggerMark

SpecPass == InitPass /\ [][NextPass]_vars

\* The watchdog with its log observed, killed and restarted at any step,
\* the launcher, and a user who edits, corrupts or deletes the session file
\* and sets the clock
NextHistory ==
    \/ Tick
    \/ WatchdogStart
    \/ WatchdogTick
    \/ WTickTamperedSignature
    \/ WatchdogAtRest /\ Launcher
    \/ User
    \/ KillWatchdog(FALSE)

SpecHistory == InitObserving({"tick"}) /\ [][NextHistory]_vars

\* Begin-Session with every kind of argument, its exit status observed
InitStart == InitObserving({"start_session"})

LauncherOps ==
    \/ \E euid \in Euids, p \in OpsProfileArgs, d \in Durations : LCheck(euid, p, d)
    \/ \E args \in StartArgs : LBadArgs(0, args)
    \/ \E dns \in DnsAnswers : LApply(dns, TRUE)
    \/ LCreate

NextStart ==
    \/ Tick
    \/ WatchdogStart
    \/ WatchdogTick
    \/ LauncherOps

SpecStart == InitStart /\ [][NextStart]_vars

\* Begin-Session with each of its error exits, the refused write to /etc/hosts
\* and the failed bootstrap of the daemon among them
NextRefusal ==
    \/ Tick
    \/ WatchdogStart
    \/ WatchdogTick
    \/ LauncherOps
    \/ LauncherRefused
    \/ \E p \in OpsProfileArgs : LInstallFails(p)

SpecRefusal == InitStart /\ [][NextRefusal]_vars

\* The schedule evaluator under each configuration of the schedule, with
\* crashes of the watchdog, the launcher and a user who deletes the session file
ScheduleVariants ==
    LET base == Config.schedules["morning"]
    IN {base,
        [base EXCEPT !.days = {"Friday"}],
        [base EXCEPT !.profile = "nope"],
        [base EXCEPT !.profile = "empty"],
        [base EXCEPT !.profile = "chat"],
        [base EXCEPT !.start_time = "00:01"],
        [base EXCEPT !.start_time = "09:00"],
        [base EXCEPT !.duration_minutes = 1],
        [base EXCEPT !.timezone = "Etc/GMT-1"],
        [base EXCEPT !.timezone = "Mars/Phobos"]}

InitSchedule ==
    /\ InitSystem
    /\ observing = {"schedule"}
    /\ schedules \in {[n \in {"morning"} |-> v] : v \in ScheduleVariants}
    /\ out = NoOut
    /\ scheduleCreated = {}
    /\ pureIn = NoPure
    /\ pureOut = <<>>

NextSchedules ==
    \/ Tick
    \/ WatchdogStart
    \/ WatchdogTick
    \/ Launcher
    \/ UserDeleteSession
    \/ KillWatchdog(TRUE)

SpecSchedule == InitSchedule /\ [][NextSchedules]_vars

\* install_daemon and uninstall_daemon called directly, by any user, while
\* the watchdog, the launcher and the clock run
InitDaemonApi == InitObserving({"install_daemon", "uninstall_daemon"})

NextDaemonApi ==
    \/ Tick
    \/ WatchdogStart
    \/ WatchdogTick
    \/ Launcher
    \/ \E euid \in Euids : CallInstallDaemon(euid)
    \/ \E euid \in Euids : CallUninstallDaemon(euid)

SpecDaemonApi == InitDaemonApi /\ [][NextDaemonApi]_vars

----------------------------------------------------------------------------
(* Session.is_clock_tampered as a function of the record and the clock *)

PureInputs ==
    [start_time : 0..MaxPureTime, duration_seconds : 1..MaxPureDuration,
     t : 0..(MaxPureTime + 2 * MaxPureDuration + 1)]

InitPure == InitSystem /\ InitQuiet /\ pureIn \in PureInputs /\ pureOut = <<>>

EvalClockTampered ==
    /\ pureOut = <<>>
    /\ pureOut' = <<is_clock_tampered(pureIn, pureIn.t)>>
    /\ UNCHANGED <<now, diskVars, procs, watchdogVars, launcherVars, owedUntil,
                   crashes, pureIn, cfgVars, obsVars>>

NextPure == EvalClockTampered

SpecPure == InitPure /\ [][NextPure]_vars

----------------------------------------------------------------------------
(* session.py: sign, verify and the JSON file as functions of the record *)

SESSION_KEYS == <<"profile_name", "start_time", "end_time", "duration_seconds",
                  "blocked_domains", "blocked_apps", "hmac_signature">>

\* Session.to_dict
to_dict(s) == [k \in Range(SESSION_KEYS) |-> s[k]]

\* json.dumps(d, indent=2): the members in the order of the dict
json_dumps(d) == [i \in 1..Len(SESSION_KEYS) |-> <<SESSION_KEYS[i], d[SESSION_KEYS[i]]>>]

\* json.loads(text)
json_loads(text) ==
    [k \in {text[i][1] : i \in 1..Len(text)} |->
        text[CHOOSE i \in 1..Len(text) : text[i][1] = k][2]]

\* Session(**data)
from_dict(data) ==
    [kind |-> "record",
     profile_name |-> data["profile_name"],
     start_time |-> data["start_time"],
     end_time |-> data["end_time"],
     duration_seconds |-> data["duration_seconds"],
     blocked_domains |-> data["blocked_domains"],
     blocked_apps |-> data["blocked_apps"],
     hmac_signature |-> data["hmac_signature"]]

\* save_session followed by load_session
SaveLoad(s) == from_dict(json_loads(json_dumps(to_dict(s))))

SignDomainLists == {<<>>, <<"x.com">>, <<"x.com", "www.x.com">>, <<"www.x.com", "x.com">>}
SignAppLists == {<<>>, <<"Discord">>}

FieldValues(field) ==
    CASE field = "profile_name" -> {"work", "chat"}
      [] field = "start_time" -> 0..MaxSignTime
      [] field = "end_time" -> 0..MaxSignTime
      [] field = "duration_seconds" -> 1..(MaxSignTime + 1)
      [] field = "blocked_domains" -> SignDomainLists
      [] OTHER -> SignAppLists

SignedFields == {"profile_name", "start_time", "end_time", "duration_seconds",
                 "blocked_domains", "blocked_apps"}

SignRecords ==
    {[NewSession(p, t, d, doms, apps) EXCEPT !.end_time = e] :
        p \in FieldValues("profile_name"), t \in FieldValues("start_time"),
        d \in FieldValues("duration_seconds"), e \in FieldValues("end_time"),
        doms \in SignDomainLists, apps \in SignAppLists}

\* a record, and one field of it with the value an edit gives it
SignInputs(field) ==
    {x \in {[r |-> r, field |-> field, value |-> v] :
                r \in SignRecords, v \in FieldValues(field)} :
        x.value # x.r[field]}

InitSign ==
    /\ InitSystem
    /\ InitQuiet
    /\ \E field \in SignedFields : pureIn \in SignInputs(field)
    /\ pureOut = <<>>

EvalSign ==
    /\ pureOut = <<>>
    /\ LET signed == sign(pureIn.r)
           edited == [signed EXCEPT ![pureIn.field] = pureIn.value]
       IN pureOut' = <<[signed |-> verify(signed),
                        reloaded |-> verify(SaveLoad(signed)),
                        same |-> SaveLoad(signed) = signed,
                        edited |-> verify(edited)]>>
    /\ UNCHANGED <<now, diskVars, procs, watchdogVars, launcherVars, owedUntil,
                   crashes, pureIn, cfgVars, obsVars>>

SpecSign == InitSign /\ [][EvalSign]_vars

----------------------------------------------------------------------------
(* blocker.py: apply_blocks and remove_blocks as functions of the hosts file *)

\* The bytes of /etc/hosts cut at "\n": the text of each piece, and whether a
\* "\r" stands before the "\n" that ends it
HostsTexts == {"127.0.0.1 localhost", "0.0.0.0 x.com", "# local", "  ", ""}

RawPiece(text, cr) == [text |-> text, cr |-> cr]

RawContents ==
    UNION {{c \in [1..n -> {RawPiece(t, cr) : t \in HostsTexts, cr \in BOOLEAN}] :
               ~c[n].cr} : n \in 1..MaxHostsLines}

\* Path.read_text(): universal newlines, "\r\n" is read as "\n"
read_hosts(raw) == [i \in 1..Len(raw) |-> raw[i].text]

\* Path.write_text(): every line ends with "\n"
write_text(content) == [i \in 1..Len(content) |-> RawPiece(content[i], FALSE)]

\* apply_blocks on the bytes of the hosts file
ApplyToHosts(raw, domains) ==
    IF domains = <<>> THEN raw
    ELSE write_text(AppliedContent(read_hosts(raw), domains))

\* remove_blocks on the bytes of the hosts file
RemoveFromHosts(raw) == write_text(RemovedContent(read_hosts(raw)))

HostsDomainLists ==
    {<<>>, <<"">>, <<"x.com">>, <<"x.com", "www.x.com">>, <<"www.x.com", "x.com", "x.com">>}

InitHosts ==
    /\ InitSystem
    /\ InitQuiet
    /\ pureIn \in {[c |-> c, d |-> d] : c \in RawContents, d \in HostsDomainLists}
    /\ pureOut = <<>>

EvalHosts ==
    /\ pureOut = <<>>
    /\ LET applied == ApplyToHosts(pureIn.c, pureIn.d)
       IN pureOut' = <<[applied |-> applied, removed |-> RemoveFromHosts(applied)]>>
    /\ UNCHANGED <<now, diskVars, procs, watchdogVars, launcherVars, owedUntil,
                   crashes, pureIn, cfgVars, obsVars>>

SpecHosts == InitHosts /\ [][EvalHosts]_vars

----------------------------------------------------------------------------
(* blocker.py: the region apply_blocks writes, for every list of domains *)

EntryDomains == {"", "x.com", "X.com", "www.x.com"}

DomainLists == UNION {[1..n -> EntryDomains] : n \in 0..MaxDomains}

InitEntries ==
    /\ InitSystem
    /\ InitQuiet
    /\ pureIn \in {[d |-> d] : d \in DomainLists}
    /\ pureOut = <<>>

\* apply_blocks(domains) on the hosts file of a fresh machine
EvalEntries ==
    /\ pureOut = <<>>
    /\ pureOut' = <<read_hosts(ApplyToHosts(write_text(ORIGINAL_HOSTS), pureIn.d))>>
    /\ UNCHANGED <<now, diskVars, procs, watchdogVars, launcherVars, owedUntil,
                   crashes, pureIn, cfgVars, obsVars>>

SpecEntries == InitEntries /\ [][EvalEntries]_vars

----------------------------------------------------------------------------
(* blocker.py: apply_blocks called again and again with non-empty lists *)

InitRepeat ==
    /\ InitSystem
    /\ InitQuiet
    /\ pureIn \in {[c |-> c] : c \in RawContents}
    /\ pureOut = <<>>

\* one more apply_blocks(d) on the file the last call left
ApplyAgain(d) ==
    /\ d # <<>>
    /\ LET before == IF pureOut = <<>> THEN [hosts |-> pureIn.c, last |-> <<>>]
                     ELSE pureOut[1]
       IN pureOut' = <<[hosts |-> ApplyToHosts(before.hosts, d), last |-> d,
                        prev |-> before.last]>>
    /\ UNCHANGED <<now, diskVars, procs, watchdogVars, launcherVars, owedUntil,
                   crashes, pureIn, cfgVars, obsVars>>

NextRepeat == \E d \in HostsDomainLists : ApplyAgain(d)

SpecRepeat == InitRepeat /\ [][NextRepeat]_vars

----------------------------------------------------------------------------
(* blocker.py: apply_blocks and remove_blocks run twice on the same disk *)

\* Contents of /etc/hosts before the call: without a region, with the region
\* of an earlier apply, with a region that lost its closing sentinel
IdemHosts ==
    LET plain == {ORIGINAL_HOSTS, <<"">>, <<"127.0.0.1 localhost">>,
                  <<"127.0.0.1 localhost", "", "  ", "">>, <<"# local", "", "0.0.0.0 x.com", "">>}
    IN plain
       \cup {AppliedContent(c, <<"x.com">>) : c \in plain}
       \cup {<<"127.0.0.1 localhost", "  " \o BLOCK_START, "0.0.0.0 m.x.com", "# local", "">>}

\* The anchor, the rules file and the token file before the call
IdemPf ==
    {[anchor |-> {}, rules |-> FALSE, token |-> FALSE],
     [anchor |-> {"93.184.216.34"}, rules |-> TRUE, token |-> TRUE],
     [anchor |-> {"198.51.100.7"}, rules |-> TRUE, token |-> FALSE]}

InitIdem ==
    /\ InitQuiet
    /\ now = 0
    /\ sessionFile = NoFile
    /\ sessionSchg = FALSE
    /\ hostsFile \in IdemHosts
    /\ hostsSchg \in BOOLEAN
    /\ \E pf \in IdemPf : /\ pfAnchor = pf.anchor
                           /\ pfRulesFile = pf.rules
                           /\ pfTokenFile = pf.token
    /\ packageSchg = FALSE
    /\ plist = Installed
    /\ scheduleState = {}
    /\ procs = {"Discord"}
    /\ pcW = "down"
    /\ wClass = "None"
    /\ wSess = NoSession
    /\ wTrig = NoTrig
    /\ pcL = "idle"
    /\ lArgs = NoArgs
    /\ owedUntil = 0
    /\ crashes = 0
    /\ pureIn \in {[d |-> d, dns |-> dns, writable |-> w] :
                       d \in HostsDomainLists, dns \in DnsAnswers, w \in BOOLEAN}
    /\ pureOut = <<>>

\* what the claim of idempotence observes of the disk
Observable(fs) == [hosts |-> fs.hosts, hostsSchg |-> fs.hostsSchg, anchor |-> fs.anchor]

\* apply_blocks once and twice, remove_blocks once and twice, each from the
\* disk as it is, with the same answer of the resolver and the same permission
EvalIdem ==
    /\ pureOut = <<>>
    /\ LET a1 == apply_blocks(Fs, pureIn.d, pureIn.dns, pureIn.writable)
           a2 == apply_blocks(a1, pureIn.d, pureIn.dns, pureIn.writable)
           r1 == remove_blocks(Fs, pureIn.writable)
           r2 == remove_blocks(r1, pureIn.writable)
       IN pureOut' = <<[apply1 |-> Observable(a1), apply2 |-> Observable(a2),
                        remove1 |-> Observable(r1), remove2 |-> Observable(r2)]>>
    /\ UNCHANGED <<now, diskVars, procs, watchdogVars, launcherVars, owedUntil,
                   crashes, pureIn, cfgVars, obsVars>>

SpecIdem == InitIdem /\ [][EvalIdem]_vars

----------------------------------------------------------------------------
(* blocker.py: apply_blocks and apply_pfctl_rules called once, on any disk *)

\* apply_pfctl_rules when `pfctl -a lockin -f` can fail: the rules file is
\* written, the anchor is not loaded, False is returned
apply_pfctl_rules_at(fs, domains, dns, pfctl_ok) ==
    IF pfctl_ok \/ resolve_domain_ips(domains, dns) = {}
    THEN apply_pfctl_rules(fs, domains, dns)
    ELSE [fs EXCEPT !.rules = TRUE]

apply_pfctl_rules_ok(domains, dns, pfctl_ok) ==
    resolve_domain_ips(domains, dns) = {} \/ pfctl_ok

InitFrame ==
    /\ InitQuiet
    /\ now = 0
    /\ sessionFile = NoFile
    /\ sessionSchg = FALSE
    /\ hostsFile \in IdemHosts
    /\ hostsSchg \in BOOLEAN
    /\ \E pf \in IdemPf : /\ pfAnchor = pf.anchor
                           /\ pfRulesFile = pf.rules
                           /\ pfTokenFile = pf.token
    /\ packageSchg = FALSE
    /\ plist = Installed
    /\ scheduleState = {}
    /\ procs = {"Discord"}
    /\ pcW = "down"
    /\ wClass = "None"
    /\ wSess = NoSession
    /\ wTrig = NoTrig
    /\ pcL = "idle"
    /\ lArgs = NoArgs
    /\ owedUntil = 0
    /\ crashes = 0
    /\ pureIn \in {[d |-> d, dns |-> dns, writable |-> w, pfctl_ok |-> k] :
                       d \in HostsDomainLists, dns \in DnsAnswers, w \in BOOLEAN,
                       k \in BOOLEAN}
    /\ pureOut = <<>>

CallApplyBlocks ==
    /\ pureOut = <<>>
    /\ pureIn.pfctl_ok
    /\ Commit(apply_blocks(Fs, pureIn.d, pureIn.dns, pureIn.writable))
    /\ pureOut' = <<[op |-> "apply_blocks",
                     ret |-> apply_blocks_ok(pureIn.d, pureIn.writable)]>>
    /\ UNCHANGED <<now, procs, watchdogVars, launcherVars, owedUntil, crashes,
                   pureIn, cfgVars, obsVars>>

CallApplyPfctlRules ==
    /\ pureOut = <<>>
    /\ pureIn.writable
    /\ Commit(apply_pfctl_rules_at(Fs, pureIn.d, pureIn.dns, pureIn.pfctl_ok))
    /\ pureOut' = <<[op |-> "apply_pfctl_rules",
                     ret |-> apply_pfctl_rules_ok(pureIn.d, pureIn.dns, pureIn.pfctl_ok)]>>
    /\ UNCHANGED <<now, procs, watchdogVars, launcherVars, owedUntil, crashes,
                   pureIn, cfgVars, obsVars>>

NextFrame ==
    \/ CallApplyBlocks
    \/ CallApplyPfctlRules

SpecFrame == InitFrame /\ [][NextFrame]_vars

----------------------------------------------------------------------------
(* blocker.py: the enable tokens of the packet filter over applies and removes *)

\* The packet filter as apply_pfctl_rules and remove_pfctl_rules see it: the
\* anchor, the rules file, the token file (0 when absent, else the token it
\* holds), the tokens handed out by `pfctl -E` and not released by `pfctl -X`,
\* and the number of tokens handed out so far
NoPf == [anchor |-> {}, rules |-> FALSE, token |-> 0, held |-> {}, issued |-> 0]

\* remove_pfctl_rules that releases nothing and only unlinks the files
pf_remove_unlinks_only(pf) ==
    [pf EXCEPT !.anchor = {}, !.token = 0, !.rules = FALSE]

\* remove_pfctl_rules: flush, `pfctl -X` the token of the file, unlink both
pf_remove(pf) ==
    [pf EXCEPT !.anchor = {}, !.held = pf.held \ {pf.token}, !.token = 0,
               !.rules = FALSE]

\* apply_pfctl_rules: nothing without an address; else write the rules, load
\* the anchor, `pfctl -E` and write the token it prints over the token file
pf_apply(pf, domains, dns) ==
    LET ips == resolve_domain_ips(domains, dns)
    IN IF ips = {} THEN pf
       ELSE [pf EXCEPT !.rules = TRUE, !.anchor = ips, !.issued = pf.issued + 1,
                       !.held = pf.held \cup {pf.issued + 1},
                       !.token = pf.issued + 1]

InitTokens ==
    /\ InitSystem
    /\ InitQuiet
    /\ pureIn = NoPure
    /\ pureOut = <<[pf |-> NoPf, op |-> "none"]>>

\* the apply of Begin-Session or of a schedule, or a re-apply by the watchdog
PfApply(domains, dns) ==
    /\ pureOut[1].pf.issued < MaxApplies
    /\ pureOut' = <<[pf |-> pf_apply(pureOut[1].pf, domains, dns), op |-> "apply"]>>
    /\ UNCHANGED <<now, diskVars, procs, watchdogVars, launcherVars, owedUntil,
                   crashes, pureIn, cfgVars, obsVars>>

\* the anchor flushed by hand between two ticks: `pfctl -a lockin -F all`
PfFlushed ==
    /\ pureOut[1].op = "apply"
    /\ pureOut[1].pf.anchor # {}
    /\ pureOut' = <<[pureOut[1] EXCEPT !.pf.anchor = {}]>>
    /\ UNCHANGED <<now, diskVars, procs, watchdogVars, launcherVars, owedUntil,
                   crashes, pureIn, cfgVars, obsVars>>

\* the remove of the teardown
PfRemove ==
    /\ pureOut[1].op = "apply"
    /\ pureOut' = <<[pf |-> pf_remove(pureOut[1].pf), op |-> "remove"]>>
    /\ UNCHANGED <<now, diskVars, procs, watchdogVars, launcherVars, owedUntil,
                   crashes, pureIn, cfgVars, obsVars>>

NextTokens ==
    \/ \E d \in HostsDomainLists, dns \in DnsAnswers : PfApply(d, dns)
    \/ PfFlushed
    \/ PfRemove

SpecTokens == InitTokens /\ [][NextTokens]_vars

----------------------------------------------------------------------------
(* daemon.py: _try_trigger_schedule at every second of a schedule's window *)

\* schedules of one and two minutes that begin at 00:00 and at 00:01 UTC
WindowSchedules ==
    {[Config.schedules["morning"] EXCEPT !.start_time = st, !.duration_minutes = m] :
        st \in {"00:00", "00:01"}, m \in {1, 2}}

InitWindow ==
    /\ InitSystem
    /\ InitQuiet
    /\ pureIn \in {[t |-> t, schedule |-> sch] :
                       t \in 0..MaxTriggerTime, sch \in WindowSchedules}
    /\ pureOut = <<>>

\* _try_trigger_schedule("morning", schedule, config, {}) at time t with no
\* session on disk: the record it creates and the trigger state it saves
EvalTrigger ==
    /\ pureOut = <<>>
    /\ LET schedule == pureIn.schedule
           t == pureIn.t
           off == TzOffset(schedule.timezone)
           lists == BlockedLists[schedule.profile]
       IN IF ShouldTrigger("morning", schedule, Config, {}, NoFile, t)
          THEN pureOut' = <<[created |-> create_session(schedule.profile, t,
                                            RemainingSeconds(schedule, t, off),
                                            lists.domains, lists.apps),
                             state |-> StatePut({}, "morning", TodayStr(t, off))]>>
          ELSE pureOut' = <<[created |-> NoSession, state |-> {}]>>
    /\ UNCHANGED <<now, diskVars, procs, watchdogVars, launcherVars, owedUntil,
                   crashes, pureIn, cfgVars, obsVars>>

SpecWindow == InitWindow /\ [][EvalTrigger]_vars

----------------------------------------------------------------------------
(* Properties *)

HasRegion(content) == Contains(content, BLOCK_START)

CleanupPcs == {"cleanup_package", "cleanup_session", "cleanup_hosts", "cleanup_pf"}

\* a step of the watchdog or of the launcher, as opposed to the user and the clock
CoreStep == watchdogVars' # watchdogVars \/ launcherVars' # launcherVars

\* a step of the watchdog that begins a tick
TickStep == pcW = "sleep" /\ watchdogVars' # watchdogVars /\ pcW' # "down"

Verifies(file) ==
    file.kind = "record" /\ file.hmac_signature = compute_hmac(file)

ClockOutOfWindow(file, t) ==
    t < file.start_time \/ t - file.start_time > 2 * file.duration_seconds

ActiveOnDisk == Verifies(sessionFile) /\ now < sessionFile.end_time

\* C1: until the clock reaches the end_time of every record that was created,
\* no step removes the hosts region or flushes the packet-filter anchor.
C1_NoReleaseBeforeEndTime ==
    [][(\/ HasRegion(hostsFile) /\ ~HasRegion(hostsFile')
        \/ pfAnchor # {} /\ pfAnchor' = {})
       => now >= owedUntil]_vars

\* C2: the watchdog is in its teardown only in a tick classified Expired, a
\* tick is classified Expired only when the record on disk verifies, the clock
\* is not tampered and now >= end_time, and no other step of the watchdog
\* deletes the session file, removes the hosts region or flushes the anchor.
C2_TeardownOnlyWhenExpiredLegit ==
    [][/\ pcW' \in CleanupPcs => wClass' = "Expired"
       /\ (pcW = "sleep" /\ pcW' \in CleanupPcs) =>
             /\ Verifies(sessionFile)
             /\ ~ClockOutOfWindow(sessionFile, now)
             /\ now >= sessionFile.end_time
       /\ (/\ watchdogVars' # watchdogVars
           /\ \/ sessionFile # NoFile /\ sessionFile' = NoFile
              \/ HasRegion(hostsFile) /\ ~HasRegion(hostsFile')
              \/ pfAnchor # {} /\ pfAnchor' = {})
          => pcW \in CleanupPcs]_vars

C2_Witness ==
    /\ pcW = "cleanup_pf"
    /\ wClass = "Expired"
    /\ sessionFile = NoFile
    /\ ~HasRegion(hostsFile)

\* C3: while the record on disk is unparseable, unverifiable or clock-tampered,
\* no step of the watchdog or of the launcher changes the session file, removes
\* the hosts region or flushes the anchor.
CheatSignal ==
    \/ sessionFile = Garbage
    \/ /\ sessionFile.kind = "record"
       /\ ~Verifies(sessionFile) \/ ClockOutOfWindow(sessionFile, now)

C3_CheatRecordNeverTouched ==
    [][(CheatSignal /\ CoreStep) =>
          /\ sessionFile' = sessionFile
          /\ HasRegion(hostsFile) => HasRegion(hostsFile')
          /\ pfAnchor # {} => pfAnchor' # {}]_vars

\* C4: without user edits, a hosts region that is present is eventually removed.
C4_AppliedBlocksEventuallyRemoved ==
    HasRegion(hostsFile) ~> ~HasRegion(hostsFile)

C6_TamperedSignatureTickChangesNothing ==
    [][(/\ TickStep
        /\ sessionFile.kind = "record"
        /\ sessionFile.hmac_signature # compute_hmac(sessionFile))
       => /\ UNCHANGED <<diskVars, procs>>
          /\ pcW' = "sleep"]_vars

C6_Witness ==
    /\ pcW = "sleep"
    /\ wClass = "TamperedSignature"
    /\ sessionFile.kind = "record"
    /\ ~Verifies(sessionFile)
    /\ now > sessionFile.end_time
    /\ HasRegion(hostsFile)
    /\ pfAnchor # {}

\* C7: a tick that loads a verified record while now < start_time or while
\* now - start_time > 2 * duration_seconds starts no teardown and leaves the
\* session file, the hosts region and the anchor as they are.
C7_TamperedClockTickNoTeardown ==
    [][(/\ TickStep
        /\ Verifies(sessionFile)
        /\ ClockOutOfWindow(sessionFile, now))
       => /\ pcW' \notin CleanupPcs
          /\ sessionFile' = sessionFile
          /\ hostsFile' = hostsFile
          /\ pfAnchor' = pfAnchor]_vars

C7_Witness ==
    /\ pcW = "sleep"
    /\ wClass = "TamperedClock"
    /\ Verifies(sessionFile)
    /\ now - sessionFile.start_time > 2 * sessionFile.duration_seconds
    /\ now > sessionFile.end_time
    /\ HasRegion(hostsFile)

\* C8: is_clock_tampered(s) at t is true exactly when t < s.start_time or
\* t - s.start_time > 2 * s.duration_seconds.
C8_ClockTamperedIff ==
    pureOut # <<>> =>
        (pureOut[1] <=>
            (\/ pureIn.t < pureIn.start_time
             \/ pureIn.t - pureIn.start_time > 2 * pureIn.duration_seconds))

C8_Witness ==
    /\ pureOut = <<FALSE>>
    /\ pureIn.t = pureIn.start_time + 2 * pureIn.duration_seconds

\* C9: create_session, run while a verified record with now < end_time is on
\* disk, leaves that record as it is.
CreateStep ==
    \/ pcL = "create" /\ pcL' = "idle"
    \/ pcW = "trigger_create" /\ pcW' = "trigger_mark"

InRegion(content, line) ==
    \E i, j, k \in 1..Len(content) :
        /\ i < j /\ j < k
        /\ Strip(content[i]) = BLOCK_START
        /\ content[j] = line
        /\ Strip(content[k]) = BLOCK_END

C12_SignVerifyRoundTrip ==
    pureOut # <<>> =>
        /\ pureOut[1].signed
        /\ pureOut[1].reloaded
        /\ ~pureOut[1].edited

C12_Witness ==
    /\ pureOut # <<>>
    /\ pureIn.field = "blocked_domains"
    /\ pureIn.r.blocked_domains = <<"x.com", "www.x.com">>
    /\ pureIn.value = <<"www.x.com", "x.com">>
    /\ pureOut[1].reloaded
    /\ ~pureOut[1].edited

\* C13: a SIGTERM or SIGINT that reaches the watchdog while the session file
\* parses, verifies and now < end_time leaves the process running and is
\* logged as ignored; one that reaches it while there is no session file
\* makes it exit.
C13_SignalIgnoredOnlyWhileActive ==
    [][SignalWatchdog =>
          /\ (Verifies(sessionFile) /\ now < sessionFile.end_time) =>
                 /\ pcW' = pcW
                 /\ out'.msg = "Ignoring signal"
          /\ (sessionFile = NoFile) => pcW' = "down"]_vars

C13_Witness ==
    /\ out.msg = "Ignoring signal"
    /\ pcW # "down"
    /\ Verifies(sessionFile)
    /\ now < sessionFile.end_time

C13_WitnessExit ==
    /\ out.msg = "Received signal, exiting"
    /\ pcW = "down"
    /\ sessionFile = NoFile

SettingsUninstallStep == \E euid \in Euids : SettingsUninstall(euid)

\* C14: uninstalling the watchdog from the settings menu is refused and the
\* registration file stays as it is whenever the session file holds a record
\* with now < end_time.
C14_UninstallRefusedWhileSessionOnDisk ==
    [][(/\ SettingsUninstallStep
        /\ sessionFile.kind = "record"
        /\ now < sessionFile.end_time) =>
          /\ plist' = plist
          /\ out'.msg # "Watchdog daemon uninstalled."]_vars

\* C15: install_daemon and uninstall_daemon called without administrator
\* privilege return failure and leave the registration file, its immutable
\* flag and the registration with launchd as they were.
C15_DaemonApiRefusedWithoutRoot ==
    /\ [][\A euid \in Euids \ {0} :
             CallInstallDaemon(euid) => (~out'.ret /\ plist' = plist /\ pcW' = pcW)]_vars
    /\ [][\A euid \in Euids \ {0} :
             CallUninstallDaemon(euid) => (~out'.ret /\ plist' = plist /\ pcW' = pcW)]_vars

C15_Witness ==
    /\ out.op = "uninstall_daemon"
    /\ ~out.ret
    /\ plist = Installed
    /\ ActiveOnDisk

LCheckFails(euid, p) ==
    \/ euid # 0
    \/ get_active_session(sessionFile, now) # NoSession
    \/ p \notin DOMAIN Config.profiles
    \/ BlockedLists[p] = [domains |-> <<>>, apps |-> <<>>]

\* the exit status the specification gives to a refused Begin-Session
SpecifiedExit(euid, p) ==
    IF euid # 0 THEN 2
    ELSE IF get_active_session(sessionFile, now) # NoSession THEN 3
    ELSE IF p \notin DOMAIN Config.profiles THEN 4
    ELSE 5

C16_WitnessSuccess ==
    /\ out.msg = "Focus session started!"
    /\ out.code = 0
    /\ ActiveOnDisk

\* C17: each schedule creates at most one session on each calendar date of
\* its timezone, over any number of ticks, and the date enters the trigger
\* state only after the session of that date has been created.
C17_AtMostOneSessionPerDate ==
    /\ [][WTriggerCreate => <<wTrig.name, wTrig.today>> \notin scheduleCreated]_vars
    /\ [][(scheduleState' \ scheduleState) \subseteq scheduleCreated]_vars

\* C18: a schedule creates a session in a tick only if the tick loaded no
\* session record, the weekday of today in the schedule's timezone is one of
\* its days, the trigger state does not record today's date for it,
\* window_start <= now < window_start + duration, its profile exists and
\* the resolved domain and application lists are not both empty.
C18_ScheduleCreatesOnlyWhenDue ==
    [][WTriggerCreate =>
          LET schedule == schedules[wTrig.name]
              off == TzOffset(schedule.timezone)
              window_start == WindowStart(schedule, now, off)
          IN /\ wClass = "None"
             /\ TodayDayName(now, off) \in schedule.days
             /\ TodayStr(now, off) \notin StateGet(scheduleState, wTrig.name)
             /\ window_start <= now
             /\ now < window_start + schedule.duration_minutes * 60
             /\ schedule.profile \in DOMAIN Config.profiles
             /\ LET lists == resolve_blocked_lists(Config.profiles[schedule.profile],
                                                   Config.always_blocked)
                IN lists.domains # <<>> \/ lists.apps # <<>>]_vars

C18_Witness ==
    /\ pcW = "trigger_mark"
    /\ <<wTrig.name, wTrig.today>> \in scheduleCreated
    /\ Verifies(sessionFile)
    /\ sessionFile.profile_name = "chat"
    /\ sessionFile.end_time = now + wTrig.remaining

RECURSIVE DropTrailingBlank(_)
DropTrailingBlank(raw) ==
    IF raw # <<>> /\ Strip(Last(raw).text) = "" THEN DropTrailingBlank(Front(raw))
    ELSE raw

\* the bytes up to trailing blank lines and the final newline
UpToFinalNewline(raw) ==
    LET kept == DropTrailingBlank(raw)
    IN [i \in 1..Len(kept) |-> IF i = Len(kept) THEN RawPiece(kept[i].text, FALSE)
                                ELSE kept[i]]

\* C19 as stated: for a hosts file c without a sentinel line and a domain
\* list d, apply(d) followed by remove() leaves a file equal to c up to
\* trailing blank lines and the final newline.
C19_RoundTripRestoresBytes ==
    pureOut # <<>> => UpToFinalNewline(pureOut[1].removed) = UpToFinalNewline(pureIn.c)

\* C19 amended: apply(d) followed by remove() leaves the lines of c, in
\* order and with their text unchanged, up to trailing blank lines, each
\* ended by "\n" whatever ended it in c; no sentinel and no line of the
\* block remains.
C19_RoundTripRestoresLines ==
    pureOut # <<>> =>
        LET removed == pureOut[1].removed
        IN /\ read_hosts(DropTrailingBlank(removed)) = read_hosts(DropTrailingBlank(pureIn.c))
           /\ \A i \in 1..Len(removed) :
                 /\ ~removed[i].cr
                 /\ Strip(removed[i].text) \notin {BLOCK_START, BLOCK_END}
           /\ Last(removed).text = ""

C19_Witness ==
    /\ pureOut # <<>>
    /\ pureIn.d = <<"x.com", "www.x.com">>
    /\ pureIn.c = <<RawPiece("127.0.0.1 localhost", TRUE), RawPiece("# local", TRUE),
                    RawPiece("", FALSE)>>
    /\ HasRegion(read_hosts(pureOut[1].applied))
    /\ pureOut[1].removed = <<RawPiece("127.0.0.1 localhost", FALSE),
                              RawPiece("# local", FALSE), RawPiece("", FALSE)>>

\* C20: applying the same domain list twice leaves the hosts file content,
\* the anchor content and the immutable flag as applying it once does, and
\* removing twice leaves them as removing once does.
C20_ApplyAndRemoveIdempotent ==
    pureOut # <<>> =>
        /\ pureOut[1].apply2 = pureOut[1].apply1
        /\ pureOut[1].remove2 = pureOut[1].remove1

C20_Witness ==
    /\ pureOut # <<>>
    /\ pureIn.d = <<"www.x.com", "x.com", "x.com">>
    /\ pureIn.writable
    /\ pureIn.dns = "public"
    /\ ~HasRegion(hostsFile)
    /\ pfAnchor = {}
    /\ HasRegion(pureOut[1].apply2.hosts)
    /\ pureOut[1].apply2.hostsSchg
    /\ pureOut[1].apply2.anchor # {}
    /\ pureOut[1].apply2 # Observable(Fs)

C20_WitnessRemove ==
    /\ pureOut # <<>>
    /\ pureIn.writable
    /\ HasRegion(hostsFile)
    /\ hostsSchg
    /\ pfAnchor # {}
    /\ ~HasRegion(pureOut[1].remove2.hosts)
    /\ ~pureOut[1].remove2.hostsSchg
    /\ pureOut[1].remove2.anchor = {}

\* a tick can start: the loaded file falls in one of the five classes
TickCanStart ==
    /\ pcW = "sleep"
    /\ Classify(sessionFile, now) \in
          {"None", "TamperedSignature", "TamperedClock", "Expired", "Active"}

\* C21: an exception raised anywhere inside a tick is caught and logged, the
\* loop goes on (to the next schedule, or to sleep and a further tick), and
\* the watchdog loop ends only through the signal handler and only when no
\* verified, non-expired session exists.
C21_ExceptionCaughtLoopGoesOn ==
    /\ [][WException =>
             /\ out'.op = "tick"
             /\ out'.msg \in {"ERROR in watchdog loop", "ERROR checking schedule"}
             /\ pcW' # "down"
             /\ (pcW \notin TriggerPcs => TickCanStart')
             /\ UNCHANGED diskVars]_vars
    /\ [][(pcW # "down" /\ pcW' = "down") =>
             /\ SignalWatchdog
             /\ ~ActiveOnDisk]_vars

C21_Witness ==
    /\ out.msg = "ERROR in watchdog loop"
    /\ pcW = "sleep"
    /\ ActiveOnDisk
    /\ ~HasRegion(hostsFile)

C21_WitnessSchedule ==
    /\ out.msg = "ERROR checking schedule"
    /\ pcW = "sleep"

LayersAsserted ==
    /\ HasRegion(hostsFile)
    /\ hostsSchg
    /\ pfAnchor # {}
    /\ sessionSchg
    /\ plist = Installed
    /\ packageSchg

\* C23: whatever protections were taken away before it, a completed Active
\* tick whose operations succeed leaves the hosts region present, the hosts
\* file immutable, the anchor loaded, the session file immutable, the
\* registration file present, immutable and bootstrapped and the package
\* immutable; the blocked applications are killed in the last step.
C23_ActiveTickReassertsEveryLayer ==
    [][/\ (pcW = "enforce_7" /\ pcW' = "sleep") =>
             /\ LayersAsserted'
             /\ procs' \cap Range(wSess.blocked_apps) = {}
       /\ (pcW \in Range(EnforcePcs) \ {"enforce_7"} /\ pcW' # "down") =>
             procs' = procs]_vars

\* C24: the watchdog is killed while a verified non-expired session exists,
\* between ticks or inside a re-assert step, and is started again; the first
\* completed tick after the restart leaves every protection layer asserted,
\* and the kill, the restart and the re-assert steps leave the session
\* record as it was before the kill.
C24_RestartReassertsEveryLayer ==
    [][/\ (crashes > 0 /\ pcW = "enforce_7" /\ pcW' = "sleep") => LayersAsserted'
       /\ (\/ pcW' = "down"
           \/ pcW = "down"
           \/ pcW \in Range(EnforcePcs)) => sessionFile' = sessionFile]_vars

\* C25: once a tick has found no session file and the hosts sentinel present,
\* that tick logs the warning, and that tick and every later one leave the
\* hosts region and the anchor in place and create no session record.
C25_OrphanedBlocksKeptNoSession ==
    [][/\ (TickStep /\ sessionFile = NoFile /\ HasRegion(hostsFile)) =>
             out'.msg = ORPHAN_WARNING
       /\ (out.msg = ORPHAN_WARNING /\ watchdogVars' # watchdogVars) =>
             /\ sessionFile' = NoFile
             /\ HasRegion(hostsFile')
             /\ pfAnchor # {} => pfAnchor' # {}]_vars

\* the teardown of an expired session has ended with the write of /etc/hosts
\* refused: the record is destroyed, the region and the anchor are in place
TeardownRefused ==
    /\ pcW = "sleep"
    /\ wClass = "Expired"
    /\ sessionFile = NoFile
    /\ HasRegion(hostsFile)

\* C26: when the write of /etc/hosts is refused during the authorized
\* teardown, so that remove_blocks returns false before the anchor is
\* flushed, the removal is attempted again on a later tick, until the hosts
\* region and the anchor are removed.
C26_RefusedRemovalRetried ==
    TeardownRefused ~> (~HasRegion(hostsFile) /\ pfAnchor = {})

\* the lines of `content` from the first start sentinel to the end sentinel
\* that follows it
Region(content) ==
    LET a == CHOOSE i \in 1..Len(content) :
                 /\ content[i] = BLOCK_START
                 /\ \A j \in 1..(i - 1) : content[j] # BLOCK_START
        b == CHOOSE i \in a..Len(content) :
                 /\ content[i] = BLOCK_END
                 /\ \A j \in a..(i - 1) : content[j] # BLOCK_END
    IN SubSeq(content, a, b)

\* C27: for every non-empty domain list the region written by apply is the
\* start sentinel, then exactly one line "0.0.0.0 d" for each distinct
\* non-empty domain d of the list, compared case-sensitively, in ascending
\* lexicographic order, then the end sentinel.
C27_RegionSortedDistinctNonEmpty ==
    (pureOut # <<>> /\ pureIn.d # <<>>) =>
        LET r == Region(pureOut[1])
            want == Range(pureIn.d) \ {""}
        IN /\ Head(r) = BLOCK_START
           /\ Last(r) = BLOCK_END
           /\ Len(r) = Cardinality(want) + 2
           /\ \A i \in 2..(Len(r) - 1) : \E d \in want : r[i] = "0.0.0.0 " \o d
           /\ \A i, j \in 2..(Len(r) - 1) :
                  i < j => \E d, e \in want : /\ r[i] = "0.0.0.0 " \o d
                                             /\ r[j] = "0.0.0.0 " \o e
                                             /\ StrRank(d) < StrRank(e)

\* a list with a duplicate, an empty string and two spellings of one name,
\* out of order, has been applied
C27_Witness ==
    /\ pureOut # <<>>
    /\ pureIn.d = <<"x.com", "X.com", "", "x.com">>
    /\ Region(pureOut[1]) = <<BLOCK_START, "0.0.0.0 X.com", "0.0.0.0 x.com", BLOCK_END>>

\* the lines of `content` before the first start sentinel and after the end
\* sentinel that follows it
OutsideRegion(content) ==
    LET a == CHOOSE i \in 1..Len(content) :
                 /\ content[i] = BLOCK_START
                 /\ \A j \in 1..(i - 1) : content[j] # BLOCK_START
        b == CHOOSE i \in a..Len(content) :
                 /\ content[i] = BLOCK_END
                 /\ \A j \in a..(i - 1) : content[j] # BLOCK_END
    IN SubSeq(content, 1, a - 1) \o SubSeq(content, b + 1, Len(content))

\* C28: after any sequence of apply calls with non-empty domain lists the
\* hosts file holds exactly one start sentinel and one end sentinel, the
\* region holds the domains of the last apply and no other, and the lines
\* outside the region are the lines of the original file, in order, up to
\* blank lines at their end.
C28_OneRegionOfLastApply ==
    pureOut # <<>> =>
        LET content == read_hosts(pureOut[1].hosts)
            r == Region(content)
            want == Range(pureOut[1].last) \ {""}
        IN /\ Cardinality({i \in 1..Len(content) : Strip(content[i]) = BLOCK_START}) = 1
           /\ Cardinality({i \in 1..Len(content) : Strip(content[i]) = BLOCK_END}) = 1
           /\ {r[i] : i \in 2..(Len(r) - 1)} = {"0.0.0.0 " \o d : d \in want}
           /\ PopBlank(OutsideRegion(content)) = PopBlank(read_hosts(pureIn.c))

\* a second apply with another list has replaced the region of the first in
\* a file that holds lines of the user
C28_Witness ==
    /\ pureOut # <<>>
    /\ pureOut[1].prev = <<"x.com">>
    /\ pureOut[1].last = <<"www.x.com", "x.com", "x.com">>
    /\ read_hosts(pureIn.c) = <<"# local", "0.0.0.0 x.com", "">>
    /\ read_hosts(pureOut[1].hosts) =
           <<"# local", "0.0.0.0 x.com", "", BLOCK_START, "0.0.0.0 www.x.com",
             "0.0.0.0 x.com", BLOCK_END, "">>

\* the call of `op` that this step makes
Calls(op) == pureOut = <<>> /\ pureOut' # <<>> /\ pureOut'[1].op = op

\* C29: apply_blocks with an empty domain list returns success and leaves
\* the hosts file content, the hosts immutable flag, the rules file, the
\* anchor and the token file unchanged; apply_pfctl_rules with a list none
\* of whose names resolves to a non-loopback address returns success
\* without writing the rules file or loading the anchor.
C29_NothingToBlockIsNoOp ==
    [][/\ (Calls("apply_blocks") /\ pureIn.d = <<>>) =>
             /\ pureOut'[1].ret
             /\ UNCHANGED <<hostsFile, hostsSchg, pfRulesFile, pfAnchor, pfTokenFile>>
       /\ (/\ Calls("apply_pfctl_rules")
           /\ \A d \in Range(pureIn.d) : d = "" \/ getaddrinfo(d, pureIn.dns) \subseteq LOOPBACK) =>
             /\ pureOut'[1].ret
             /\ UNCHANGED <<pfRulesFile, pfAnchor, pfTokenFile>>]_vars

\* apply_pfctl_rules has returned from a list whose names all resolve to
\* 0.0.0.0, on a disk without rules file and with an empty anchor
C29_Witness ==
    /\ pureOut # <<>>
    /\ pureOut[1].op = "apply_pfctl_rules"
    /\ pureOut[1].ret
    /\ pureIn.d = <<"x.com", "www.x.com">>
    /\ pureIn.dns = "sinkhole"
    /\ ~pfRulesFile
    /\ pfAnchor = {}

\* apply_blocks has returned from an empty list on a disk that holds the
\* region and the anchor of an earlier session
C29_WitnessEmptyList ==
    /\ pureOut # <<>>
    /\ pureOut[1].op = "apply_blocks"
    /\ pureOut[1].ret
    /\ pureIn.d = <<>>
    /\ HasRegion(hostsFile)
    /\ pfAnchor # {}

\* C30: when the hosts file cannot be read or written for lack of
\* privilege, apply_blocks returns false, the content of the hosts file is
\* the content before the call, and the rules file, the anchor and the
\* token file are not touched.
C30_RefusedApplyLeavesFileAndFilter ==
    [][(Calls("apply_blocks") /\ pureIn.d # <<>> /\ ~pureIn.writable) =>
          /\ ~pureOut'[1].ret
          /\ UNCHANGED <<hostsFile, pfRulesFile, pfAnchor, pfTokenFile>>]_vars

\* apply_blocks has been refused with a list whose names resolve, on a disk
\* without a region and with an empty anchor
C30_Witness ==
    /\ pureOut # <<>>
    /\ pureOut[1].op = "apply_blocks"
    /\ ~pureOut[1].ret
    /\ pureIn.d = <<"x.com", "www.x.com">>
    /\ pureIn.dns = "public"
    /\ ~pureIn.writable
    /\ hostsFile = ORIGINAL_HOSTS
    /\ pfAnchor = {}

\* C31: after any sequence of packet-filter applies, the initial one and the
\* re-applies that follow an anchor found empty, followed by the remove of
\* the teardown, every enable token the system acquired has been released,
\* and neither the token file nor the rules file exists.
C31_TeardownReleasesEveryToken ==
    (pureOut # <<>> /\ pureOut[1].op = "remove") =>
        /\ pureOut[1].pf.held = {}
        /\ pureOut[1].pf.token = 0
        /\ ~pureOut[1].pf.rules

\* a step that ends a tick of the watchdog
TickEnds ==
    /\ pcW # "down"
    /\ pcW' = "sleep"
    /\ pcW # "sleep" \/ wClass' # wClass

\* C32: after every watchdog tick every key of the persisted trigger state
\* names a schedule of the current configuration, also when the
\* configuration has no schedule left and when the tick found a session record.
C32_StateKeysAreSchedules ==
    [][TickEnds => \A x \in scheduleState' : x[1] \in DOMAIN schedules']_vars

\* a step of the watchdog, as opposed to the user and the clock
WatchdogStep == watchdogVars' # watchdogVars

\* C33: a session record on disk carries the write-immutable flag whenever
\* no save is in progress: the watchdog clears the flag only when it
\* destroys the record, every save ends with the flag set, and an Active
\* tick that finds the flag cleared sets it.
C33_SessionFileKeptImmutable ==
    [][/\ (WatchdogStep /\ sessionSchg /\ sessionFile' # NoFile) => sessionSchg'
       /\ (sessionFile' # sessionFile /\ sessionFile' # NoFile) => sessionSchg'
       /\ (WatchdogStep /\ ~sessionSchg') => sessionFile' = NoFile \/ ~sessionSchg
       /\ (pcW = "enforce_4" /\ pcW' = "enforce_5") => sessionSchg']_vars

\* step 4 of an Active tick has found the flag cleared and has set it
C33_Witness ==
    /\ pcW = "enforce_5"
    /\ out.msg = ENFORCE_LOG[4]
    /\ sessionFile # NoFile
    /\ sessionSchg

\* C34: the system clears the write-immutable flag of the package only in
\* the first step of the authorized teardown, the tick that classified a
\* verified record Expired: no tick classified None, Tampered-signature,
\* Tampered-clock or Active, no Begin-Session and no installer operation
\* clears it, and protecting a protected package changes nothing on disk.
C34_PackageUnprotectedOnlyInTeardown ==
    [][/\ (packageSchg /\ ~packageSchg') =>
             /\ pcW = "cleanup_package"
             /\ pcW' = "cleanup_session"
             /\ wClass = "Expired"
       /\ (pcW = "enforce_6" /\ pcW' = "enforce_7" /\ packageSchg) =>
             UNCHANGED diskVars]_vars

\* an Active tick is about to protect a package that is protected already
C34_Witness ==
    /\ pcW = "enforce_6"
    /\ packageSchg
    /\ wClass = "Active"

\* the second of the first day at which the window of `schedule` ends
EndOfWindow(schedule) ==
    (IF schedule.start_time = "00:01" THEN 60 ELSE 0) + 60 * schedule.duration_minutes

\* C35: every session created by a schedule has duration_seconds equal to
\* the number of seconds from the trigger time to the end of the schedule's
\* window, that number is at least 60, and a window with fewer than 60
\* seconds left creates no session and records no trigger.
C35_ScheduledDurationIsRestOfWindow ==
    pureOut # <<>> =>
        LET left == EndOfWindow(pureIn.schedule) - pureIn.t
            made == pureOut[1].created
        IN /\ made # NoSession =>
                 /\ made.duration_seconds = left
                 /\ made.duration_seconds >= 60
           /\ left < 60 => made = NoSession /\ pureOut[1].state = {}

\* a schedule of two minutes has fired 45 seconds into its window
C35_Witness ==
    /\ pureOut # <<>>
    /\ pureIn.t = 105
    /\ pureIn.schedule.start_time = "00:01"
    /\ pureIn.schedule.duration_minutes = 2
    /\ pureOut[1].created # NoSession
    /\ pureOut[1].created.duration_seconds = 75
    /\ pureOut[1].state = {<<"morning", 0>>}

\* a schedule of two minutes was evaluated with 59 seconds of its window left
C35_WitnessSkipped ==
    /\ pureOut # <<>>
    /\ pureIn.t = 121
    /\ pureIn.schedule.start_time = "00:01"
    /\ pureIn.schedule.duration_minutes = 2
    /\ pureOut[1].created = NoSession

\* C36: within one pass of _check_schedules over schedules whose windows
\* all match, at most one schedule creates a session: the record it creates
\* is verified and not expired, and every schedule evaluated while such a
\* record is on disk creates nothing, applies no blocks and is not marked
\* as triggered.
C36_OneSessionPerPass ==
    [][/\ (pcW = "trigger_create" /\ pcW' = "trigger_mark") =>
             ~ActiveSession /\ ActiveSession'
       /\ (pcW = "try_trigger" /\ ActiveSession) =>
             /\ pcW' \in {"try_trigger", "sleep"}
             /\ UNCHANGED <<diskVars, procs, scheduleCreated>>
       /\ (pcW \in TriggerPcs /\ ActiveSession) => ActiveSession']_vars

\* the second schedule, whose window matches too, is evaluated after the
\* first has created a session in the same pass
C36_Witness ==
    /\ pcW = "try_trigger"
    /\ wTrig.pending = <<"evening">>
    /\ ActiveSession
    /\ scheduleCreated = {<<"morning", 0>>}
    /\ ShouldTrigger("evening", schedules["evening"], LoadedConfig, wTrig.state,
                     NoFile, now)

\* C37: after every completed Active tick the hosts file holds, inside the
\* delimited region, a line "0.0.0.0 d" for every non-empty d of the
\* session's blocked_domains, also when the lines of the region were
\* deleted while both sentinel lines were left in place.
C37_ActiveTickRestoresRegionLines ==
    [][(pcW = "enforce_7" /\ pcW' = "sleep") =>
          \A d \in Range(wSess.blocked_domains) \ {""} :
              /\ HasRegion(hostsFile')
              /\ "0.0.0.0 " \o d \in Range(Region(hostsFile'))]_vars

\* the classification of the record on disk at time t, from its fields
ClassOnDisk(file, t) ==
    IF file.kind # "record" THEN "None"
    ELSE IF ~Verifies(file) THEN "TamperedSignature"
    ELSE IF ClockOutOfWindow(file, t) THEN "TamperedClock"
    ELSE IF t >= file.end_time THEN "Expired"
    ELSE "Active"

\* where a tick of that classification takes the watchdog
PcOfClass(class) ==
    CASE class = "None" -> IF DOMAIN schedules = {} THEN "sleep" ELSE "try_trigger"
      [] class = "Expired" -> "cleanup_package"
      [] class = "Active" -> "enforce"
      [] OTHER -> "sleep"

\* C38: the action a tick takes (schedule evaluation, nothing, re-assert,
\* teardown) is a function of the disk and the clock at the tick alone,
\* whatever the earlier ticks of this or of a killed watchdog were: a tick
\* with a sane clock after a Tampered-clock tick classifies the same record
\* Active or Expired.
C38_TickActionFromDiskAndClock ==
    [][(pcW = "sleep" /\ pcW' # "down" /\ watchdogVars' # watchdogVars) =>
          /\ wClass' = ClassOnDisk(sessionFile, now)
          /\ pcW' = PcOfClass(ClassOnDisk(sessionFile, now))]_vars

\* a tick has classified the record Active after an earlier tick had logged
\* the clock warning
C38_Witness ==
    /\ pcW = "enforce"
    /\ wClass = "Active"
    /\ out.msg = CLOCK_WARNING

\* a step of a Begin-Session run that can end with an error: the checks,
\* passed or failed, the failed install and the refused write
ErrorRunStep ==
    \/ \E euid \in Euids, p \in OpsProfileArgs, d \in Durations : LCheck(euid, p, d)
    \/ \E args \in StartArgs : LBadArgs(0, args)
    \/ \E p \in OpsProfileArgs : LInstallFails(p)
    \/ LauncherRefused

\* C39: every Begin-Session run that ends with an error (not root, bad
\* arguments or duration, session already active, profile not found, nothing
\* to block, daemon install failed, hosts apply failed) exits 1 through steps
\* that leave the session file and the content of the hosts file as they were.
C39_ErrorExitLeavesNoTrace ==
    /\ [][ErrorRunStep => (sessionFile' = sessionFile /\ hostsFile' = hostsFile)]_vars
    /\ [][(out' # out /\ out'.code = 1) =>
             (ErrorRunStep /\ pcL' = "idle" /\ out'.op = "start_session")]_vars

\* the write to /etc/hosts was refused while the region of an expired
\* session was still in the file
C39_Witness ==
    /\ out.msg = "Failed to apply website blocks"
    /\ out.code = 1
    /\ pcL = "idle"
    /\ Contains(hostsFile, BLOCK_START)
    /\ ~ActiveSession

C39_WitnessInstall ==
    /\ out.msg = "Failed to install watchdog daemon"
    /\ out.code = 1
    /\ sessionFile = NoFile
    /\ hostsFile = ORIGINAL_HOSTS

====
